---- MODULE Spec2Model ----
(***************************************************************************)
(* A model of the embedding store of pymagnitudelight (class Magnitude in  *)
(* src/pymagnitudelight/__init__.py).                                      *)
(*                                                                         *)
(* Part 1, the memmap builder: get_vectors_mmap, _setup_for_mmap, _iter    *)
(* and the first statement of close, run by several threads of several     *)
(* store objects in several processes, all pointing at one path_to_mmap.   *)
(* Every bytecode-level read or write of a shared attribute is a step of   *)
(* its own, so that the interleavings of unsynchronised threads are the    *)
(* ones CPython can produce.                                               *)
(*                                                                         *)
(* Part 2, out-of-vocabulary synthesis: _out_of_vocab_vector run by the    *)
(* threads of one process on the global generator np.random.               *)
(*                                                                         *)
(* Part 3, the query facade and the lookup caches: query on a single key   *)
(* and on a flat list with padding and truncation, called one after the    *)
(* other on one store.                                                     *)
(*                                                                         *)
(* Part 4, the similarity search: most_similar and most_similar_cosmul on  *)
(* one store, scanned in batches.                                          *)
(*                                                                         *)
(* Part 5, the concatenated store: ConcatenatedMagnitude over two stores.  *)
(*                                                                         *)
(* Part 6, the lookup of rows by position: index.                          *)
(*                                                                         *)
(* Part 7, the handles on the storage: _db, the background threads, close. *)
(*                                                                         *)
(* Part 8, the registry of in-process locks: _setup_for_mmap on several    *)
(* stores of one process.                                                  *)
(*                                                                         *)
(* Part 9, the preload of the lookup cache by the constructor.             *)
(*                                                                         *)
(* Each part has its own next-state relation and specification and leaves  *)
(* the variables of the other parts unchanged.                             *)
(*                                                                         *)
(* Library semantics the model relies on:                                  *)
(*  - threading.Lock: acquire(False) succeeds iff the lock is unlocked;    *)
(*    release() of an unlocked lock raises RuntimeError; any thread may    *)
(*    release.                                                             *)
(*  - fasteners.InterProcessLock: an advisory lock on '<path>.lock' owned  *)
(*    by a process.  acquire(0) fails when another process owns it and     *)
(*    succeeds when nobody does; when the caller's own process owns it     *)
(*    the library gives no guarantee (fcntl locks are per process, other   *)
(*    platforms lock per handle), so both outcomes are possible.           *)
(*  - os.rename is atomic; open(name, "w+b") truncates the file the name   *)
(*    refers to, or creates a new one.                                     *)
(***************************************************************************)
EXTENDS Integers, Sequences, FiniteSets, TLC

(***************************************************************************)
(* Topology: worker (thread) -> store object -> process.                   *)
(* Workers 1 and 2 are two threads of store 1 (the eager background thread *)
(* and a foreground caller) in process 1, worker 3 is the eager thread of  *)
(* store 2 in process 2.                                                   *)
(***************************************************************************)
StoreOf == <<1, 1, 2>>
ProcOf == <<1, 2>>
Background == <<TRUE, FALSE, TRUE>>
\* the stores on which close() is called: store 2 stands for a store of a
\* process that keeps it open
Closable == {1}
Workers == DOMAIN StoreOf
Stores == DOMAIN ProcOf
Procs == {ProcOf[s] : s \in Stores}
ProcOfWorker(w) == ProcOf[StoreOf[w]]

\* self.length: the number of records of the table (and rows of the matrix)
Length == 2
\* how many I/O errors the environment may inject in one behaviour
MaxErrors == 1

\* self.memory_db of each store (all stores are opened from a file)
memory_db == <<FALSE, FALSE>>

Rows == 0 .. (Length - 1)
NoLock == 0
NoProc == 0
NoFile == 0
None == 0
\* the attribute _all_vectors after "del self._all_vectors"
Deleted == -1

VARIABLES
    pc,             \* pc[w]: where worker w is in get_vectors_mmap
    closed,         \* closed[s]: self.closed
    released,       \* released[s]: close() has released the store's handles
    setup_for_mmap, \* setup_for_mmap[s]: self.setup_for_mmap
    all_vectors,    \* all_vectors[s]: self._all_vectors, None or the file mapped
    registry,       \* registry[p]: Magnitude.MMAP_THREAD_LOCK[path_to_mmap] in process p
    thread_lock,    \* thread_lock[s]: self.MMAP_THREAD_LOCK, the lock object the store refers to
    locked,         \* locked[l]: the worker that locked threading.Lock l, or 0
    process_lock,   \* the process owning the file lock on path_to_mmap + '.lock'
    tlock,          \* tlock[w]: the local tlock
    mmap_file,      \* mmap_file[w]: the file the builder w writes through its memmap
    i,              \* i[w]: how many records _iter has delivered to builder w
    outcome,        \* outcome[w]: "none", "raise" (an exception propagates), "return" (return in the try)
    rv,             \* rv[w]: what the call returned (None or a file)
    tmp,            \* the file named path_to_mmap + '.tmp'
    mmap,           \* the file named path_to_mmap
    rows,           \* rows[f]: the rows of file f that hold their record's vector
    errors,         \* I/O errors injected so far
    file_at_call,   \* file_at_call[w]: the file at path_to_mmap when w called (history)
    polled_after_build, \* polled_after_build[w]: w was polling while the file existed (history)
    \* Part 2, out-of-vocabulary synthesis
    rng,            \* the state of the global generator np.random
    oov_lock,       \* the thread holding Magnitude.OOV_RNG_LOCK, or 0
    opc,            \* opc[t]: where thread t is in _out_of_vocab_vector
    oov_store,      \* oov_store[t]: self of the call
    oov_key,        \* oov_key[t]: the argument key
    seeds,          \* seeds[t]: the seeds the call has still to draw with
    seed,           \* seed[t]: the local seed
    random_vectors, \* random_vectors[t]: the draws of the call, in order
    oov_calls,      \* the calls made so far
    synthesized,    \* synthesized[s][k]: the vectors returned for key k on store s (history)
    \* Part 3, the query facade and the lookup caches of one store
    use_numpy,      \* self.use_numpy
    self_pad_left,  \* self.pad_left
    self_truncate_left, \* self.truncate_left
    case_insensitive, \* self.case_insensitive
    vector_cache,   \* self._vector_for_key_cached._cache
    oov_cache,      \* self._out_of_vocab_vector_cached._cache
    query_cache,    \* the cache of the decorated method query
    db_queries,     \* the statements the last call executed on self._db()
    q_calls,        \* the calls of query made so far
    last,           \* the last call of query: its arguments and its result
    first_answer,   \* first_answer[<<key, normalized>>]: the vector of the first query (history)
    \* Part 4, the similarity search of one store
    sim_store,      \* the store: its rows, self.case_insensitive, self.batch_size
    sim_last,       \* the last call of most_similar or most_similar_cosmul and its result
    \* Part 5, the concatenated store
    cat_store,      \* use_numpy of the two stores, and self.magnitudes once concatenated
    cat_last,       \* the last call on the concatenated store and its result
    \* Part 6, the lookup of rows by position on one store
    index_cache,    \* self._key_for_index_cached._cache
    index_calls,    \* the calls of index made so far
    index_last,     \* the last call of index and its result
    \* Part 7, the handles on the storage of one store
    db_thread,      \* db_thread[t]: state, identifier and position of thread t
    _all_conns,     \* self._all_conns
    _conns,         \* self._conns[identifier], or NoHandle
    _cursors,       \* self._cursors[identifier], or NoHandle
    cursor_conn,    \* cursor_conn[c]: the connection cursor c was made on
    conns_made,     \* the connections sqlite3_connect has opened (history)
    conn_open,      \* the connections that are open
    handles,        \* whether self.fd and self._all_vectors._mmap are open
    db_closed,      \* self.closed
    close_pc,       \* where close is
    db_calls,       \* db_calls[t]: the calls of _db by thread t and their results (history)
    \* Part 8, the registry of in-process locks of one process
    path_lock,      \* Magnitude.MMAP_THREAD_LOCK[path_to_mmap], or NoLock
    setup,          \* setup[s]: where store s is in _setup_for_mmap, and its self.MMAP_THREAD_LOCK
    \* Part 9, the preload of the lookup cache by the constructor
    pre,            \* the options, the file, the holder of the locks, the cache
    pre_pc          \* pre_pc[t]: where thread t is

mmapVars == <<pc, closed, released, setup_for_mmap, all_vectors, registry, thread_lock,
              locked, process_lock, tlock, mmap_file, i, outcome, rv,
              tmp, mmap, rows, errors, file_at_call, polled_after_build>>

oovVars == <<rng, oov_lock, opc, oov_store, oov_key, seeds, seed, random_vectors,
             oov_calls, synthesized>>

queryVars == <<use_numpy, self_pad_left, self_truncate_left, case_insensitive, vector_cache, oov_cache,
               query_cache, db_queries, q_calls, last, first_answer>>

simVars == <<sim_store, sim_last>>

catVars == <<cat_store, cat_last>>

\* the variables of the parts after the query facade
indexVars == <<index_cache, index_calls, index_last>>
dbVars == <<db_thread, _all_conns, _conns, _cursors, cursor_conn, conns_made,
           conn_open, handles, db_closed, close_pc, db_calls>>
setupVars == <<path_lock, setup>>
preloadVars == <<pre, pre_pc>>
laterVars == <<simVars, catVars, indexVars, dbVars, setupVars, preloadVars>>

vars == <<mmapVars, oovVars, queryVars, laterVars>>

\* what the steps of one part leave alone
exceptMmap == <<oovVars, queryVars, laterVars>>
exceptOOV == <<mmapVars, queryVars, laterVars>>
exceptQuery == <<mmapVars, oovVars, laterVars>>
exceptSim ==
    <<mmapVars, oovVars, queryVars, catVars, indexVars, dbVars, setupVars, preloadVars>>
exceptCat ==
    <<mmapVars, oovVars, queryVars, simVars, indexVars, dbVars, setupVars, preloadVars>>
exceptIndex ==
    <<mmapVars, oovVars, queryVars, simVars, catVars, dbVars, setupVars, preloadVars>>
exceptDb ==
    <<mmapVars, oovVars, queryVars, simVars, catVars, indexVars, setupVars, preloadVars>>
exceptSetup ==
    <<mmapVars, oovVars, queryVars, simVars, catVars, indexVars, dbVars, preloadVars>>
exceptPreload ==
    <<mmapVars, oovVars, queryVars, simVars, catVars, indexVars, dbVars, setupVars>>

\* the workers, and the threading.Lock objects and files they create, share ids
Locks == Workers
Files == Workers

BuildPcs == {"open", "scan", "flush", "rename"}
PollPcs == {"loop", "setup_reset", "setup_check", "setup_put", "setup_get",
            "memmap", "tlock", "plock"}

InitMmap ==
    /\ pc = [w \in Workers |-> "idle"]
    /\ closed = [s \in Stores |-> FALSE]
    /\ released = [s \in Stores |-> FALSE]
    /\ setup_for_mmap = [s \in Stores |-> FALSE]
    /\ all_vectors = [s \in Stores |-> None]
    /\ registry = [p \in Procs |-> NoLock]
    /\ thread_lock = [s \in Stores |-> NoLock]
    /\ locked = [l \in Locks |-> 0]
    /\ process_lock = NoProc
    /\ tlock = [w \in Workers |-> FALSE]
    /\ mmap_file = [w \in Workers |-> NoFile]
    /\ i = [w \in Workers |-> 0]
    /\ outcome = [w \in Workers |-> "none"]
    /\ rv = [w \in Workers |-> None]
    /\ tmp = NoFile
    /\ mmap = NoFile
    /\ rows = [f \in Files |-> {}]
    /\ errors = 0
    /\ file_at_call = [w \in Workers |-> NoFile]
    /\ polled_after_build = [w \in Workers |-> FALSE]

\* history: which workers have been polling while the file was in place
RecordPolling ==
    polled_after_build' = [w \in Workers |->
        polled_after_build[w] \/ (pc'[w] \in PollPcs /\ mmap' # NoFile)]

(***************************************************************************)
(* get_vectors_mmap, lines 1398-1462.                                      *)
(***************************************************************************)

\* line 1402: a thread enters get_vectors_mmap and tests self._all_vectors.
\* A foreground caller calls an open store; the eager thread was started by
\* the constructor (line 357) and runs whenever it is scheduled.
get_vectors_mmap(w) ==
    /\ pc[w] = "idle"
    /\ Background[w] \/ ~closed[StoreOf[w]]
    /\ all_vectors[StoreOf[w]] # Deleted
    /\ pc' = [pc EXCEPT ![w] = IF all_vectors[StoreOf[w]] = None
                               THEN "loop" ELSE "return"]
    /\ file_at_call' = [file_at_call EXCEPT ![w] = mmap]
    /\ UNCHANGED <<closed, released, setup_for_mmap, all_vectors, registry, thread_lock,
                   locked, process_lock, tlock, mmap_file, i, outcome,
                   rv, tmp, mmap, rows, errors>>
    /\ RecordPolling
    /\ UNCHANGED exceptMmap

\* line 1405: while True: if not self.setup_for_mmap: self._setup_for_mmap()
loop_head(w) ==
    /\ pc[w] = "loop"
    /\ pc' = [pc EXCEPT ![w] = IF setup_for_mmap[StoreOf[w]]
                               THEN "memmap" ELSE "setup_reset"]
    /\ UNCHANGED <<closed, released, setup_for_mmap, all_vectors, registry, thread_lock,
                   locked, process_lock, tlock, mmap_file, i, outcome,
                   rv, tmp, mmap, rows, errors, file_at_call>>
    /\ RecordPolling
    /\ UNCHANGED exceptMmap

\* _setup_for_mmap, line 422: self._all_vectors = None
setup_reset(w) ==
    /\ pc[w] = "setup_reset"
    /\ all_vectors' = [all_vectors EXCEPT ![StoreOf[w]] = None]
    /\ pc' = [pc EXCEPT ![w] = "setup_check"]
    /\ UNCHANGED <<closed, released, setup_for_mmap, registry, thread_lock,
                   locked, process_lock, tlock, mmap_file, i, outcome,
                   rv, tmp, mmap, rows, errors, file_at_call>>
    /\ RecordPolling
    /\ UNCHANGED exceptMmap

\* _setup_for_mmap, line 433: if self.path_to_mmap not in Magnitude.MMAP_THREAD_LOCK
setup_check(w) ==
    /\ pc[w] = "setup_check"
    /\ pc' = [pc EXCEPT ![w] = IF registry[ProcOfWorker(w)] = NoLock
                               THEN "setup_put" ELSE "setup_get"]
    /\ UNCHANGED <<closed, released, setup_for_mmap, all_vectors, registry, thread_lock,
                   locked, process_lock, tlock, mmap_file, i, outcome,
                   rv, tmp, mmap, rows, errors, file_at_call>>
    /\ RecordPolling
    /\ UNCHANGED exceptMmap

\* _setup_for_mmap, line 434: Magnitude.MMAP_THREAD_LOCK[path] = threading.Lock()
\* (the new lock object takes the id of the worker that creates it)
setup_put(w) ==
    /\ pc[w] = "setup_put"
    /\ registry' = [registry EXCEPT ![ProcOfWorker(w)] = w]
    /\ pc' = [pc EXCEPT ![w] = "setup_get"]
    /\ UNCHANGED <<closed, released, setup_for_mmap, all_vectors, thread_lock,
                   locked, process_lock, tlock, mmap_file, i, outcome,
                   rv, tmp, mmap, rows, errors, file_at_call>>
    /\ RecordPolling
    /\ UNCHANGED exceptMmap

\* _setup_for_mmap, lines 435-437:
\*   self.MMAP_THREAD_LOCK = Magnitude.MMAP_THREAD_LOCK[path]
\*   self.MMAP_PROCESS_LOCK = InterProcessLock(...)  (a new handle on the lock file)
\*   self.setup_for_mmap = True
\* One step: no other thread's step reads or writes both attributes, so a
\* step that falls between the two writes can be moved before or after them.
setup_get(w) ==
    /\ pc[w] = "setup_get"
    /\ thread_lock' = [thread_lock EXCEPT ![StoreOf[w]] = registry[ProcOfWorker(w)]]
    /\ setup_for_mmap' = [setup_for_mmap EXCEPT ![StoreOf[w]] = TRUE]
    /\ pc' = [pc EXCEPT ![w] = "memmap"]
    /\ UNCHANGED <<closed, released, all_vectors, registry,
                   locked, process_lock, tlock, mmap_file, i, outcome,
                   rv, tmp, mmap, rows, errors, file_at_call>>
    /\ RecordPolling
    /\ UNCHANGED exceptMmap

\* lines 1407-1417: np.memmap(self.path_to_mmap, mode='r') succeeds iff the
\* file exists; the result is published in self._all_vectors and the loop is
\* left.  A memory store or an empty one needs no file.
try_memmap(w) ==
    /\ pc[w] = "memmap"
    /\ IF ~memory_db[StoreOf[w]] /\ Length > 0
       THEN IF mmap # NoFile
            THEN /\ all_vectors' = [all_vectors EXCEPT ![StoreOf[w]] = mmap]
                 /\ pc' = [pc EXCEPT ![w] = "return"]
            ELSE /\ pc' = [pc EXCEPT ![w] = "tlock"]
                 /\ UNCHANGED all_vectors
       ELSE /\ all_vectors' = [all_vectors EXCEPT ![StoreOf[w]] = w]
            /\ pc' = [pc EXCEPT ![w] = "return"]
    /\ UNCHANGED <<closed, released, setup_for_mmap, registry, thread_lock,
                   locked, process_lock, tlock, mmap_file, i, outcome,
                   rv, tmp, mmap, rows, errors, file_at_call>>
    /\ RecordPolling
    /\ UNCHANGED exceptMmap

\* line 1427: tlock = self.MMAP_THREAD_LOCK.acquire(False).  locked[l] records
\* the worker that locked l (0 when unlocked).
acquire_tlock(w) ==
    /\ pc[w] = "tlock"
    /\ LET l == thread_lock[StoreOf[w]] IN
         IF locked[l] = 0
         THEN /\ locked' = [locked EXCEPT ![l] = w]
              /\ tlock' = [tlock EXCEPT ![w] = TRUE]
         ELSE /\ tlock' = [tlock EXCEPT ![w] = FALSE]
              /\ UNCHANGED locked
    /\ pc' = [pc EXCEPT ![w] = "plock"]
    /\ UNCHANGED <<closed, released, setup_for_mmap, all_vectors, registry, thread_lock,
                   process_lock, mmap_file, i, outcome,
                   rv, tmp, mmap, rows, errors, file_at_call>>
    /\ RecordPolling
    /\ UNCHANGED exceptMmap

\* what InterProcessLock.acquire(0) may answer to a thread of process p
ProcessLockAnswers(p) ==
    IF process_lock = NoProc THEN {TRUE}
    ELSE IF process_lock = p THEN {TRUE, FALSE}
    ELSE {FALSE}

\* lines 1428-1429: plock = self.MMAP_PROCESS_LOCK.acquire(0); if tlock and plock.
\* Without both locks the worker goes through sleep(1), line 1461, to the next
\* round of the loop.
acquire_plock(w) ==
    /\ pc[w] = "plock"
    /\ \E got \in ProcessLockAnswers(ProcOfWorker(w)) :
         /\ process_lock' = IF got THEN ProcOfWorker(w) ELSE process_lock
         /\ pc' = [pc EXCEPT ![w] = IF tlock[w] /\ got THEN "open" ELSE "loop"]
    /\ tlock' = [tlock EXCEPT ![w] = FALSE]
    /\ UNCHANGED <<closed, released, setup_for_mmap, all_vectors, registry, thread_lock,
                   locked, mmap_file, i, outcome,
                   rv, tmp, mmap, rows, errors, file_at_call>>
    /\ RecordPolling
    /\ UNCHANGED exceptMmap

\* lines 1434-1437: open(path_to_mmap_temp, "w+b") creates the temp file or
\* truncates the one that is there, and np.memmap(mode='w+') sizes it; the
\* builder writes through this mapping whatever the file is named later.
\* Creating the file may fail with an I/O error, which leaves the try block.
open_temp(w) ==
    /\ pc[w] = "open"
    /\ \/ /\ tmp' = IF tmp = NoFile THEN w ELSE tmp
          /\ rows' = [rows EXCEPT ![tmp'] = {}]
          /\ mmap_file' = [mmap_file EXCEPT ![w] = tmp']
          /\ i' = [i EXCEPT ![w] = 0]
          /\ pc' = [pc EXCEPT ![w] = "scan"]
          /\ UNCHANGED <<outcome, errors>>
       \/ /\ errors < MaxErrors
          /\ errors' = errors + 1
          /\ outcome' = [outcome EXCEPT ![w] = "raise"]
          /\ pc' = [pc EXCEPT ![w] = "release_tlock"]
          /\ UNCHANGED <<tmp, rows, mmap_file, i>>
    /\ UNCHANGED <<closed, released, setup_for_mmap, all_vectors, registry, thread_lock,
                   locked, process_lock, tlock, rv, mmap, file_at_call>>
    /\ RecordPolling
    /\ UNCHANGED exceptMmap

\* lines 1439-1445 with _iter, lines 1508-1525: one round of
\* "for i, value in enumerate(values)".  Resuming the generator after a yield
\* tests self.closed (line 1519); then the cursor delivers the next record,
\* which is written to row i, or is exhausted.  An error of the scan is
\* swallowed by _iter when the store is closed (lines 1521-1523), which ends
\* the loop, and raised otherwise; an error of the write always propagates.
scan(w) ==
    /\ pc[w] = "scan"
    /\ \/ /\ i[w] > 0 /\ closed[StoreOf[w]]
          /\ pc' = [pc EXCEPT ![w] = "flush"]
          /\ UNCHANGED <<rows, i, outcome, errors>>
       \/ /\ ~(i[w] > 0 /\ closed[StoreOf[w]])
          /\ i[w] = Length
          /\ pc' = [pc EXCEPT ![w] = "flush"]
          /\ UNCHANGED <<rows, i, outcome, errors>>
       \/ /\ ~(i[w] > 0 /\ closed[StoreOf[w]])
          /\ i[w] < Length
          /\ rows' = [rows EXCEPT ![mmap_file[w]] = @ \cup {i[w]}]
          /\ i' = [i EXCEPT ![w] = @ + 1]
          /\ UNCHANGED <<pc, outcome, errors>>
       \/ /\ ~(i[w] > 0 /\ closed[StoreOf[w]])
          /\ i[w] < Length
          /\ errors < MaxErrors
          /\ errors' = errors + 1
          /\ \/ /\ closed[StoreOf[w]]
                /\ pc' = [pc EXCEPT ![w] = "flush"]
                /\ UNCHANGED outcome
             \/ /\ ~closed[StoreOf[w]]
                /\ outcome' = [outcome EXCEPT ![w] = "raise"]
                /\ pc' = [pc EXCEPT ![w] = "release_tlock"]
             \/ /\ outcome' = [outcome EXCEPT ![w] = "raise"]
                /\ pc' = [pc EXCEPT ![w] = "release_tlock"]
          /\ UNCHANGED <<rows, i>>
    /\ UNCHANGED <<closed, released, setup_for_mmap, all_vectors, registry, thread_lock,
                   locked, process_lock, tlock, mmap_file, rv, tmp, mmap, file_at_call>>
    /\ RecordPolling
    /\ UNCHANGED exceptMmap

\* lines 1446-1454: all_vectors.flush(); if not self.closed: (rename) else: return
flush(w) ==
    /\ pc[w] = "flush"
    /\ IF ~closed[StoreOf[w]]
       THEN /\ pc' = [pc EXCEPT ![w] = "rename"]
            /\ UNCHANGED outcome
       ELSE /\ outcome' = [outcome EXCEPT ![w] = "return"]
            /\ pc' = [pc EXCEPT ![w] = "release_tlock"]
    /\ UNCHANGED <<closed, released, setup_for_mmap, all_vectors, registry, thread_lock,
                   locked, process_lock, tlock, mmap_file, i,
                   rv, tmp, mmap, rows, errors, file_at_call>>
    /\ RecordPolling
    /\ UNCHANGED exceptMmap

\* line 1452: os.rename(path_to_mmap_temp, self.path_to_mmap), which raises
\* FileNotFoundError when the temp name is gone
rename(w) ==
    /\ pc[w] = "rename"
    /\ IF tmp # NoFile
       THEN /\ mmap' = tmp
            /\ tmp' = NoFile
            /\ UNCHANGED outcome
       ELSE /\ outcome' = [outcome EXCEPT ![w] = "raise"]
            /\ UNCHANGED <<tmp, mmap>>
    /\ pc' = [pc EXCEPT ![w] = "release_tlock"]
    /\ UNCHANGED <<closed, released, setup_for_mmap, all_vectors, registry, thread_lock,
                   locked, process_lock, tlock, mmap_file, i,
                   rv, rows, errors, file_at_call>>
    /\ RecordPolling
    /\ UNCHANGED exceptMmap

\* line 1456, in the finally: self.MMAP_THREAD_LOCK.release(), on the lock the
\* store refers to now; releasing an unlocked lock raises RuntimeError, which
\* leaves the finally block before line 1458
release_tlock(w) ==
    /\ pc[w] = "release_tlock"
    /\ LET l == thread_lock[StoreOf[w]] IN
         IF locked[l] # 0
         THEN /\ locked' = [locked EXCEPT ![l] = 0]
              /\ pc' = [pc EXCEPT ![w] = "release_plock"]
              /\ UNCHANGED outcome
         ELSE /\ outcome' = [outcome EXCEPT ![w] = "none"]
              /\ pc' = [pc EXCEPT ![w] = "raised"]
              /\ UNCHANGED locked
    \* the locals of the build section are dead from here on
    /\ i' = [i EXCEPT ![w] = 0]
    /\ mmap_file' = [mmap_file EXCEPT ![w] = NoFile]
    /\ UNCHANGED <<closed, released, setup_for_mmap, all_vectors, registry, thread_lock,
                   process_lock, tlock, rv, tmp, mmap, rows, errors, file_at_call>>
    /\ RecordPolling
    /\ UNCHANGED exceptMmap

\* lines 1457-1460: self.MMAP_PROCESS_LOCK.release(), errors ignored; then the
\* try statement ends: the exception propagates, the return returns None, or
\* the loop goes on through sleep(1), line 1461, to its next round
release_plock(w) ==
    /\ pc[w] = "release_plock"
    /\ process_lock' = IF process_lock = ProcOfWorker(w) THEN NoProc
                       ELSE process_lock
    /\ pc' = [pc EXCEPT ![w] = CASE outcome[w] = "raise" -> "raised"
                                 [] outcome[w] = "return" -> "returned"
                                 [] OTHER -> "loop"]
    /\ outcome' = [outcome EXCEPT ![w] = "none"]
    /\ rv' = [rv EXCEPT ![w] = None]
    /\ UNCHANGED <<closed, released, setup_for_mmap, all_vectors, registry, thread_lock,
                   locked, tlock, mmap_file, i,
                   tmp, mmap, rows, errors, file_at_call>>
    /\ RecordPolling
    /\ UNCHANGED exceptMmap

\* line 1462: return self._all_vectors (AttributeError once close() has
\* deleted the attribute)
return_all_vectors(w) ==
    /\ pc[w] = "return"
    /\ IF all_vectors[StoreOf[w]] = Deleted
       THEN /\ pc' = [pc EXCEPT ![w] = "raised"]
            /\ UNCHANGED rv
       ELSE /\ rv' = [rv EXCEPT ![w] = all_vectors[StoreOf[w]]]
            /\ pc' = [pc EXCEPT ![w] = "returned"]
    /\ UNCHANGED <<closed, released, setup_for_mmap, all_vectors, registry, thread_lock,
                   locked, process_lock, tlock, mmap_file, i, outcome,
                   tmp, mmap, rows, errors, file_at_call>>
    /\ RecordPolling
    /\ UNCHANGED exceptMmap

\* a thread of self._threads is alive from the constructor until its target returns
is_alive(w) == Background[w] /\ pc[w] \notin {"returned", "raised"}

\* close, line 1549: self.closed = True
close(s) ==
    /\ ~closed[s]
    /\ closed' = [closed EXCEPT ![s] = TRUE]
    /\ UNCHANGED <<pc, released, setup_for_mmap, all_vectors, registry, thread_lock,
                   locked, process_lock, tlock, mmap_file, i, outcome,
                   rv, tmp, mmap, rows, errors, file_at_call>>
    /\ RecordPolling
    /\ UNCHANGED exceptMmap

\* close, lines 1550-1577: once no thread of self._threads is alive, the
\* connections, the descriptor and the memory map are closed, _all_vectors is
\* deleted, and the handle on the lock file is closed, which gives up the
\* file lock if it was held through this handle.
close_release(s) ==
    /\ closed[s] /\ ~released[s]
    /\ \A w \in Workers : StoreOf[w] = s => ~is_alive(w)
    /\ released' = [released EXCEPT ![s] = TRUE]
    /\ all_vectors' = [all_vectors EXCEPT ![s] = Deleted]
    /\ \E gives_up \in IF setup_for_mmap[s] /\ process_lock = ProcOf[s]
                       THEN {TRUE, FALSE} ELSE {FALSE} :
         process_lock' = IF gives_up THEN NoProc ELSE process_lock
    /\ UNCHANGED <<pc, closed, setup_for_mmap, registry, thread_lock,
                   locked, tlock, mmap_file, i, outcome,
                   rv, tmp, mmap, rows, errors, file_at_call>>
    /\ RecordPolling
    /\ UNCHANGED exceptMmap

WorkerStep(w) ==
    \/ get_vectors_mmap(w)
    \/ loop_head(w)
    \/ setup_reset(w)
    \/ setup_check(w)
    \/ setup_put(w)
    \/ setup_get(w)
    \/ try_memmap(w)
    \/ acquire_tlock(w)
    \/ acquire_plock(w)
    \/ open_temp(w)
    \/ scan(w)
    \/ flush(w)
    \/ rename(w)
    \/ release_tlock(w)
    \/ release_plock(w)
    \/ return_all_vectors(w)

Next ==
    \/ \E w \in Workers : WorkerStep(w)
    \/ \E s \in Closable : close(s)
    \/ \E s \in Closable : close_release(s)

(***************************************************************************)
(* Part 2, out-of-vocabulary synthesis: _out_of_vocab_vector, lines        *)
(* 781-835, called by the threads of one process.  The generator np.random *)
(* and Magnitude.OOV_RNG_LOCK are global to the process.                   *)
(*                                                                         *)
(* The generator is a deterministic function of its seed and of the number *)
(* of draws made since: the draw number n after seed(s) is written         *)
(* <<s, n>>.  np.random.seed() without argument takes the seed from the    *)
(* operating system's entropy; that state is written Entropy and a draw    *)
(* from it can give any value.                                             *)
(***************************************************************************)
Threads == 1 .. 2
OOVStores == 1 .. 2
\* the configuration of the stores: self.ngram_oov, self._namespace (0: none)
ngram_oov == <<TRUE, FALSE>>
namespace == <<0, 1>>
\* the calls each run makes at most
MaxCalls == 3
\* keys: 0 is a number (not a string), 1 .. MaxKey are strings
MaxKey == 2
OOVKeys == 0 .. MaxKey
\* the width of the digest in bits, and the values a seed can take
HashBits == 2
SeedSpace == 0 .. (2 ^ HashBits - 1)
Entropy == -1
NGRAM_BEG == 1
\* type(key).__name__ of a number, as a value to hash
TypeName == 3
\* the separator Magnitude.RARE_CHAR between namespace and value
Radix == 4

\* xxhash.xxh32(...).intdigest(): a fixed function of the bytes hashed
xxh32(bytes) == (bytes * 3 + 1) % (2 ^ HashBits)

\* _seed, lines 702-710
_seed(s, val) ==
    IF namespace[s] # 0 THEN xxh32(namespace[s] * Radix + val)
    ELSE xxh32(val)

\* _oov_key_t, lines 532-539: is_str
is_str(key) == key > 0

\* len(key) after _oov_key_t has put the word boundaries around the key
KeyLen(key) == key + 2

\* char_ngrams(key, NGRAM_BEG, NGRAM_END): the n-grams of a string key
char_ngrams(key) == [j \in 1 .. key |-> key + j - 1]

\* lines 788-806: the seeds the call seeds the generator with, in order
SeedsOf(s, key) ==
    IF ~is_str(key) THEN <<_seed(s, TypeName)>>
    ELSE IF ~ngram_oov[s] \/ KeyLen(key) < NGRAM_BEG THEN <<_seed(s, key)>>
    ELSE [j \in 1 .. Len(char_ngrams(key)) |-> _seed(s, char_ngrams(key)[j])]

InitOOV ==
    /\ rng = [seed |-> Entropy, n |-> 0]
    /\ oov_lock = 0
    /\ opc = [t \in Threads |-> "idle"]
    /\ oov_store = [t \in Threads |-> 1]
    /\ oov_key = [t \in Threads |-> 0]
    /\ seeds = [t \in Threads |-> <<>>]
    /\ seed = [t \in Threads |-> 0]
    /\ random_vectors = [t \in Threads |-> <<>>]
    /\ oov_calls = 0
    /\ synthesized = [s \in OOVStores |-> [k \in OOVKeys |-> {}]]

\* lines 781-789, 796, 802-806: a thread enters with a key and computes the
\* first seed
_out_of_vocab_vector(t) ==
    /\ opc[t] = "idle"
    /\ oov_calls < MaxCalls
    /\ oov_calls' = oov_calls + 1
    /\ \E s \in OOVStores, key \in OOVKeys :
         /\ oov_store' = [oov_store EXCEPT ![t] = s]
         /\ oov_key' = [oov_key EXCEPT ![t] = key]
         /\ seed' = [seed EXCEPT ![t] = Head(SeedsOf(s, key))]
         /\ seeds' = [seeds EXCEPT ![t] = Tail(SeedsOf(s, key))]
    /\ random_vectors' = [random_vectors EXCEPT ![t] = <<>>]
    /\ opc' = [opc EXCEPT ![t] = "acquire"]
    /\ UNCHANGED <<rng, oov_lock, synthesized>>
    /\ UNCHANGED exceptOOV

\* lines 790, 797, 807: Magnitude.OOV_RNG_LOCK.acquire()
rng_acquire(t) ==
    /\ opc[t] = "acquire"
    /\ oov_lock = 0
    /\ oov_lock' = t
    /\ opc' = [opc EXCEPT ![t] = "seed"]
    /\ UNCHANGED <<rng, oov_store, oov_key, seeds, seed, random_vectors,
                   oov_calls, synthesized>>
    /\ UNCHANGED exceptOOV

\* lines 791, 798, 808: np.random.seed(seed=seed)
rng_seed(t) ==
    /\ opc[t] = "seed"
    /\ rng' = [seed |-> seed[t], n |-> 0]
    /\ opc' = [opc EXCEPT ![t] = "uniform"]
    /\ UNCHANGED <<oov_lock, oov_store, oov_key, seeds, seed, random_vectors,
                   oov_calls, synthesized>>
    /\ UNCHANGED exceptOOV

\* what np.random.uniform can return in generator state g
Uniform(g) ==
    IF g.seed = Entropy THEN {<<e, 0>> : e \in SeedSpace}
    ELSE {<<g.seed, g.n>>}

\* lines 792, 799, 809-810: np.random.uniform(-1, 1, (self.emb_dim,))
rng_uniform(t) ==
    /\ opc[t] = "uniform"
    /\ \E v \in Uniform(rng) :
         random_vectors' = [random_vectors EXCEPT ![t] = Append(@, v)]
    /\ rng' = IF rng.seed = Entropy THEN rng ELSE [rng EXCEPT !.n = 1]
    /\ opc' = [opc EXCEPT ![t] = "release"]
    /\ UNCHANGED <<oov_lock, oov_store, oov_key, seeds, seed,
                   oov_calls, synthesized>>
    /\ UNCHANGED exceptOOV

\* lines 793, 800, 811: Magnitude.OOV_RNG_LOCK.release(), and the for loop of
\* line 805 goes to the next n-gram (line 806) or ends
rng_release(t) ==
    /\ opc[t] = "release"
    /\ oov_lock' = 0
    /\ IF seeds[t] # <<>>
       THEN /\ seed' = [seed EXCEPT ![t] = Head(seeds[t])]
            /\ seeds' = [seeds EXCEPT ![t] = Tail(seeds[t])]
            /\ opc' = [opc EXCEPT ![t] = "acquire"]
       ELSE /\ opc' = [opc EXCEPT ![t] = "reseed"]
            /\ UNCHANGED <<seed, seeds>>
    /\ UNCHANGED <<rng, oov_store, oov_key, random_vectors, oov_calls, synthesized>>
    /\ UNCHANGED exceptOOV

\* line 814: np.random.seed()
rng_reseed(t) ==
    /\ opc[t] = "reseed"
    /\ rng' = [seed |-> Entropy, n |-> 0]
    /\ opc' = [opc EXCEPT ![t] = "return"]
    /\ UNCHANGED <<oov_lock, oov_store, oov_key, seeds, seed, random_vectors,
                   oov_calls, synthesized>>
    /\ UNCHANGED exceptOOV

\* lines 812, 815-835: the vector returned is a function of the draws (their
\* mean; random_vector[-1] of a number is overwritten from the key), of
\* the key and of the store (padding, the similar keys of storage, norm)
final_vector(t) == [key |-> oov_key[t], random_vector |-> random_vectors[t]]

oov_return(t) ==
    /\ opc[t] = "return"
    /\ synthesized' = [synthesized EXCEPT ![oov_store[t]][oov_key[t]] =
                          @ \cup {final_vector(t)}]
    /\ opc' = [opc EXCEPT ![t] = "idle"]
    /\ seed' = [seed EXCEPT ![t] = 0]
    /\ random_vectors' = [random_vectors EXCEPT ![t] = <<>>]
    /\ UNCHANGED <<rng, oov_lock, oov_store, oov_key, seeds, oov_calls>>
    /\ UNCHANGED exceptOOV

NextOOV ==
    \E t \in Threads :
        \/ _out_of_vocab_vector(t)
        \/ rng_acquire(t)
        \/ rng_seed(t)
        \/ rng_uniform(t)
        \/ rng_release(t)
        \/ rng_reseed(t)
        \/ oov_return(t)

(***************************************************************************)
(* Part 3, the query facade and the lookup caches: query, lines 1033-1097  *)
(* (a single key and a flat list), _vectors_for_keys_cached, lines         *)
(* 897-948, _query_is_cached, lines 1146-1152, called one after the other  *)
(* on one store with lazy_loading = 0 (caches without eviction).           *)
(*                                                                         *)
(* A vector is a sequence of dim numbers.  The key of a cache entry is a   *)
(* Python pair: its first component is a tuple or a bare string, which     *)
(* never compare equal in Python, its second a frozenset of options.       *)
(***************************************************************************)
emb_dim == 1
placeholders == 1
dim == emb_dim + placeholders
\* the keys: 1 and 2 have a record in storage, 3 has none
QueryKeys == 1 .. 3
InStorage == {1, 2}
\* the longest flat list queried, the largest pad_to_length, the calls of a
\* run without and with padding
MaxLen == 2
MaxT == 3
MaxQueries == 3
MaxPadded == 2
\* the magnitude stored with every record, by which a raw vector is scaled
Magnitude == 2
self_normalized == TRUE
self_pad_to_length == None

\* Python's None where a vector is expected
NoneVec == <<>>
B(flag) == IF flag THEN 1 ELSE 0

\* _padding_vector, lines 502-507
_padding_vector == [j \in 1 .. dim |-> 0]

\* _db_result_to_vec, lines 850-869: the first emb_dim numbers of the record,
\* scaled, followed by placeholders zeros
_db_result_to_vec(key, normalized) ==
    [j \in 1 .. dim |-> IF j <= emb_dim
                        THEN (IF normalized THEN key ELSE key * Magnitude)
                        ELSE 0]

\* the vector _out_of_vocab_vector returns for a string key, lines 781-835
oov_vector(key, normalized) ==
    [j \in 1 .. dim |-> IF j <= emb_dim THEN 0 - (2 * key + B(normalized)) ELSE 0]

\* the collation NOCASE of the column key (key 2 is key 1 in upper case)
collate_nocase(key) == IF key = 2 THEN 1 ELSE key
\* _key_t, lines 509-516
_key_t(key) == IF case_insensitive THEN collate_nocase(key) ELSE key

\* the cache keys written in the source: ((key,), frozenset([('normalized',
\* normalized)])) at lines 878 and 939, (key, frozenset([('normalized',
\* normalized)])) at lines 1150 and 1152
PutKey(key, normalized) ==
    [args |-> [tag |-> "tuple", items |-> <<key>>],
     kwargs |-> {<<"normalized", B(normalized)>>}]
GetKey(key, normalized) ==
    [args |-> [tag |-> "str", items |-> <<key>>],
     kwargs |-> {<<"normalized", B(normalized)>>}]

\* the key under which the decorator lru_cache files a call: (key, options)
CacheKey(key, normalized) == PutKey(key, normalized)

\* the key under which the decorator of query files query(q) and
\* query(q, normalized=...)
QueryCacheKey(q, normalized) ==
    [args |-> [tag |-> "tuple", items |-> <<q>>],
     kwargs |-> IF normalized = "None" THEN {}
                ELSE {<<"normalized", B(normalized = "True")>>}]

\* _cache.get(key), None when there is no entry; _cache.put(key, val)
cache_has(cache, key) == \E e \in cache : e.key = key
cache_get(cache, key) ==
    IF cache_has(cache, key) THEN (CHOOSE e \in cache : e.key = key).val
    ELSE NoneVec
cache_put(cache, key, val) ==
    {e \in cache : e.key # key} \cup {[key |-> key, val |-> val]}

\* _vector_for_key, lines 881-895: one SELECT
_vector_for_key(key, normalized) ==
    IF key \in InStorage THEN _db_result_to_vec(key, normalized) ELSE NoneVec

\* c is the state of the store during a call: the caches vc, oc, qc and the
\* number n of statements executed on the storage layer

\* self._vector_for_key_cached(key, normalized): the decorated _vector_for_key
_vector_for_key_cached(c, key, normalized) ==
    IF cache_has(c.vc, CacheKey(key, normalized))
    THEN [c |-> c, rv |-> cache_get(c.vc, CacheKey(key, normalized))]
    ELSE [c |-> [c EXCEPT !.vc = cache_put(@, CacheKey(key, normalized),
                                           _vector_for_key(key, normalized)),
                          !.n = @ + 1],
          rv |-> _vector_for_key(key, normalized)]

\* self._out_of_vocab_vector_cached(key, normalized): the decorated
\* _out_of_vocab_vector, which searches storage for similar keys (lines 819-827)
_out_of_vocab_vector_cached(c, key, normalized) ==
    IF cache_has(c.oc, CacheKey(key, normalized))
    THEN [c |-> c, rv |-> cache_get(c.oc, CacheKey(key, normalized))]
    ELSE [c |-> [c EXCEPT !.oc = cache_put(@, CacheKey(key, normalized),
                                           oov_vector(key, normalized)),
                          !.n = @ + 1],
          rv |-> oov_vector(key, normalized)]

\* _query_is_cached, lines 1146-1152
_query_is_cached(c, key, normalized) ==
    \/ cache_get(c.vc, GetKey(key, normalized)) # NoneVec
    \/ cache_get(c.oc, GetKey(key, normalized)) # NoneVec

\* line 1040: normalized if normalized is not None else self.normalized
Normalized(normalized) ==
    IF normalized = "None" THEN self_normalized ELSE normalized = "True"

\* query of a single key, lines 1033-1050, behind its decorator
query_key(c, q, normalized) ==
    IF cache_has(c.qc, QueryCacheKey(q, normalized))
    THEN [c |-> c, rv |-> cache_get(c.qc, QueryCacheKey(q, normalized))]
    ELSE LET vec == _vector_for_key_cached(c, q, Normalized(normalized))
             res == IF vec.rv = NoneVec
                    THEN _out_of_vocab_vector_cached(vec.c, q, Normalized(normalized))
                    ELSE vec
         IN [c |-> [res.c EXCEPT !.qc = cache_put(@, QueryCacheKey(q, normalized),
                                                  res.rv)],
             rv |-> res.rv]

\* lines 903-904: the keys for which _query_is_cached answers False
unseen_keys(c, keys, normalized) ==
    SelectSeq(keys, LAMBDA key : ~_query_is_cached(c, key, normalized))

\* lines 907-908: {self._key_t(k): i for i, k in enumerate(unseen_keys)}, in
\* which a later position replaces an earlier one; positions count from 1
in_unseen_keys_map(unseen, key) == \E ix \in 1 .. Len(unseen) : _key_t(unseen[ix]) = key
unseen_keys_map(unseen, key) ==
    CHOOSE ix \in 1 .. Len(unseen) :
        /\ _key_t(unseen[ix]) = key
        /\ \A j \in 1 .. Len(unseen) : _key_t(unseen[j]) = key => j <= ix

\* lines 912-920: the records SELECT ... WHERE key IN (unseen_keys) returns
results(unseen) ==
    {key \in InStorage : \E ix \in 1 .. Len(unseen) : collate_nocase(unseen[ix]) = collate_nocase(key)}

\* lines 921-936: every record returned is put in the vector cache by
\* _db_full_result_to_vec (lines 876-878).  A record whose key after _key_t
\* is in the map is stored at the position the map gives, when the store is
\* case-insensitive or its key is the key at that position: the first such
\* record returned (the records come in the order of their rows) stays unless
\* the record with the very key of the position follows
unseen_vectors(unseen, normalized) ==
    [ix \in 1 .. Len(unseen) |->
        LET stored == {result_key \in results(unseen) :
                          /\ in_unseen_keys_map(unseen, _key_t(result_key))
                          /\ unseen_keys_map(unseen, _key_t(result_key)) = ix
                          /\ (case_insensitive \/ result_key = unseen[ix])}
        IN  IF unseen[ix] \in stored THEN _db_result_to_vec(unseen[ix], normalized)
            ELSE IF stored # {}
            THEN _db_result_to_vec(CHOOSE result_key \in stored :
                                       \A other \in stored : result_key <= other,
                                   normalized)
            ELSE NoneVec]

put_results(cache, unseen, normalized) ==
    {e \in cache : \A key \in results(unseen) : e.key # PutKey(key, normalized)}
        \cup {[key |-> PutKey(key, normalized),
               val |-> _db_result_to_vec(key, normalized)] : key \in results(unseen)}

\* lines 937-943, from position ix on: the vector found, or None, is put in the
\* vector cache, and a None is replaced by the out-of-vocabulary vector
RECURSIVE put_unseen(_, _, _, _, _)
put_unseen(c, unseen, vectors, normalized, ix) ==
    IF ix > Len(unseen) THEN [c |-> c, rv |-> vectors]
    ELSE LET c1 == [c EXCEPT !.vc = cache_put(@, PutKey(unseen[ix], normalized),
                                              vectors[ix])]
             oov == _out_of_vocab_vector_cached(c1, unseen[ix], normalized)
         IN IF vectors[ix] = NoneVec
            THEN put_unseen(oov.c, unseen, [vectors EXCEPT ![ix] = oov.rv],
                            normalized, ix + 1)
            ELSE put_unseen(c1, unseen, vectors, normalized, ix + 1)

\* lines 944-947, from position j on: a key that is not in the map is queried
\* by self.query(key, normalized=normalized)
RECURSIVE collect_vectors(_, _, _, _, _, _)
collect_vectors(c, keys, unseen, vectors, normalized, j) ==
    IF j > Len(keys) THEN [c |-> c, rv |-> <<>>]
    ELSE LET one == IF in_unseen_keys_map(unseen, keys[j])
                    THEN [c |-> c,
                          rv |-> vectors[unseen_keys_map(unseen, _key_t(keys[j]))]]
                    ELSE query_key(c, keys[j], IF normalized THEN "True" ELSE "False")
             rest == collect_vectors(one.c, keys, unseen, vectors, normalized, j + 1)
         IN [c |-> rest.c, rv |-> <<one.rv>> \o rest.rv]

\* _vectors_for_keys_cached, lines 897-948 (not a language model)
_vectors_for_keys_cached(c, keys, normalized) ==
    LET unseen == unseen_keys(c, keys, normalized)
        c1 == IF Len(unseen) > 0
              THEN [c EXCEPT !.vc = put_results(@, unseen, normalized), !.n = @ + 1]
              ELSE c
        put == IF Len(unseen) > 0
               THEN put_unseen(c1, unseen, unseen_vectors(unseen, normalized),
                               normalized, 1)
               ELSE [c |-> c, rv |-> <<>>]
    IN collect_vectors(put.c, keys, unseen, put.rv, normalized, 1)

Min(a, b) == IF a < b THEN a ELSE b
Max(a, b) == IF a > b THEN a ELSE b

\* Python's slices on a sequence of length n: a negative bound counts from the
\* end, -0 is 0, and a bound outside the sequence is clipped
SliceBound(n, bound) == IF bound < 0 THEN Max(n + bound, 0) ELSE Min(bound, n)
\* seq[start:]
SliceFrom(seq, start) == SubSeq(seq, SliceBound(Len(seq), start) + 1, Len(seq))
\* seq[0:stop]
SliceTo(seq, stop) == SubSeq(seq, 1, SliceBound(Len(seq), stop))

\* tensor[lo:hi] = vectors, lines 1066 and 1068.  On a list the slice is
\* replaced by the vectors, whatever their number.  On a numpy array the
\* vectors, an array of shape (len, dim), or of shape (0,) when there is none,
\* must broadcast to the hi - lo rows of the slice, else ValueError is raised.
assign_slice(tensor, lo, hi, vectors) ==
    IF ~use_numpy
    THEN [raised |-> FALSE,
          tensor |-> SubSeq(tensor, 1, lo) \o vectors \o SubSeq(tensor, hi + 1, Len(tensor))]
    ELSE IF Len(vectors) >= 1 /\ (Len(vectors) = hi - lo \/ Len(vectors) = 1)
    THEN [raised |-> FALSE,
          tensor |-> [r \in 1 .. Len(tensor) |->
                        IF lo < r /\ r <= hi
                        THEN (IF Len(vectors) = 1 THEN vectors[1] ELSE vectors[r - lo])
                        ELSE tensor[r]]]
    ELSE [raised |-> TRUE, tensor |-> <<>>]

\* lines 1041-1043: pad_to_length or self.pad_to_length, pad_left or
\* self.pad_left, truncate_left or self.truncate_left
PadToLength(pad_to_length) ==
    IF pad_to_length # None THEN pad_to_length ELSE self_pad_to_length
PadLeft(pad_left) == IF pad_left = "True" THEN TRUE ELSE self_pad_left
TruncateLeft(truncate_left) ==
    IF truncate_left = "True" THEN TRUE ELSE self_truncate_left

\* query of a flat list, lines 1033-1044 and 1051-1069 (a list is not
\* hashable, so the decorator lets the call through)
query_list(c, q, pad_to_length, pad_left, truncate_left, normalized) ==
    LET pad_to == IF PadToLength(pad_to_length) # None
                  THEN PadToLength(pad_to_length) ELSE Len(q)
        padding_length == Max(pad_to - Len(q), 0)
        keys_length == pad_to - padding_length
        found == _vectors_for_keys_cached(c, q, Normalized(normalized))
        vectors == IF TruncateLeft(truncate_left)
                   THEN SliceFrom(found.rv, 0 - keys_length)
                   ELSE SliceTo(found.rv, keys_length)
        zeros == [r \in 1 .. pad_to |-> _padding_vector]
        out == IF PadLeft(pad_left)
               THEN assign_slice(zeros, SliceBound(pad_to, 0 - keys_length), pad_to,
                                 vectors)
               ELSE assign_slice(zeros, 0, SliceBound(pad_to, keys_length), vectors)
    IN [c |-> found.c, raised |-> out.raised, rv |-> out.tensor, vectors |-> found.rv]

\* the flat lists of at most MaxLen keys
Lists == UNION {[1 .. len -> QueryKeys] : len \in 0 .. MaxLen}
Options == {"None", "True", "False"}
Pairs == QueryKeys \X BOOLEAN

\* a store as its constructor leaves it, with the configuration given
InitStore ==
    /\ vector_cache = {}
    /\ oov_cache = {}
    /\ query_cache = {}
    /\ db_queries = 0
    /\ q_calls = 0
    /\ last = [kind |-> "none", q |-> <<>>, normalized |-> TRUE, pad_to_length |-> None,
               pad_left |-> FALSE, truncate_left |-> FALSE, raised |-> FALSE,
               rv |-> <<>>, vectors |-> <<>>, repeat |-> FALSE,
               options |-> <<"None", "None">>]
    /\ first_answer = [pair \in Pairs |-> NoneVec]

\* the default configuration (lines 194-197)
InitQuery ==
    /\ use_numpy = TRUE
    /\ self_pad_left = FALSE
    /\ self_truncate_left = FALSE
    /\ case_insensitive = FALSE
    /\ InitStore

\* any configuration of use_numpy, pad_left and truncate_left
InitAnyQuery ==
    /\ use_numpy \in BOOLEAN
    /\ self_pad_left \in BOOLEAN
    /\ self_truncate_left \in BOOLEAN
    /\ case_insensitive = FALSE
    /\ InitStore

\* a store that is case-sensitive or case-insensitive, with or without numpy
InitCaseQuery ==
    /\ use_numpy \in BOOLEAN
    /\ self_pad_left = FALSE
    /\ self_truncate_left = FALSE
    /\ case_insensitive \in BOOLEAN
    /\ InitStore

\* the caches as the call starts
Store == [vc |-> vector_cache, oc |-> oov_cache, qc |-> query_cache, n |-> 0]

\* history: the first vector returned for every key and flag
RecordAnswers(q, normalized, vectors) ==
    first_answer' = [pair \in Pairs |->
        IF first_answer[pair] = NoneVec /\ pair[2] = normalized
           /\ \E j \in 1 .. Len(q) : q[j] = pair[1]
        THEN vectors[CHOOSE j \in 1 .. Len(q) : q[j] = pair[1]]
        ELSE first_answer[pair]]

\* what a call leaves behind: the caches, the statement count, the record
Returns(res, kind, q, pad_to_length, pad_left, truncate_left, normalized) ==
    /\ vector_cache' = res.c.vc
    /\ oov_cache' = res.c.oc
    /\ query_cache' = res.c.qc
    /\ db_queries' = res.c.n
    /\ last' = [kind |-> kind, q |-> q, normalized |-> Normalized(normalized),
                pad_to_length |-> pad_to_length, pad_left |-> PadLeft(pad_left),
                truncate_left |-> TruncateLeft(truncate_left),
                raised |-> res.raised, rv |-> res.rv, vectors |-> res.vectors,
                repeat |-> \A j \in 1 .. Len(q) :
                              first_answer[<<q[j], Normalized(normalized)>>] # NoneVec,
                options |-> <<pad_left, truncate_left>>]
    /\ RecordAnswers(q, Normalized(normalized), res.vectors)
    /\ q_calls' = q_calls + 1
    /\ UNCHANGED <<use_numpy, self_pad_left, self_truncate_left, case_insensitive>>
    /\ UNCHANGED exceptQuery

\* query(key) and query(key, normalized=...)
call_query_key ==
    /\ q_calls < MaxQueries
    /\ \E key \in QueryKeys, normalized \in Options :
         LET res == query_key(Store, key, normalized)
         IN Returns([c |-> res.c, raised |-> FALSE, rv |-> <<res.rv>>,
                     vectors |-> <<res.rv>>],
                    "key", <<key>>, None, "None", "None", normalized)

\* query(q) and query(q, normalized=...) with q a flat list
call_query_list ==
    /\ q_calls < MaxQueries
    /\ \E q \in Lists, normalized \in Options :
         Returns(query_list(Store, q, None, "None", "None", normalized),
                 "list", q, None, "None", "None", normalized)

\* query(q, pad_to_length=..., pad_left=..., truncate_left=...)
call_query_padded ==
    /\ q_calls < MaxPadded
    /\ \E q \in Lists, pad_to_length \in 1 .. MaxT, pad_left \in Options,
          truncate_left \in Options :
         Returns(query_list(Store, q, pad_to_length, pad_left, truncate_left, "None"),
                 "padded", q, pad_to_length, pad_left, truncate_left, "None")

NextCache == call_query_key \/ call_query_list
NextPad == call_query_padded

(***************************************************************************)
(* Part 4, the similarity search: most_similar, most_similar_cosmul and    *)
(* _db_query_similarity, lines 1206-1387, on one store whose matrix is     *)
(* built (get_vectors_mmap returns it).                                    *)
(*                                                                         *)
(* Keys are numbers, key 2 being the upper-case spelling of key 1.  The    *)
(* records hold unit vectors with whole components, so every score is a    *)
(* fraction <<numerator, denominator>> computed exactly.  A factor that is *)
(* positive and the same for all rows of one call is left out of the       *)
(* scores (1 / (n * |mean_vector|) for 'distance', 2^|negative| * 10^6 /   *)
(* 2^|positive| for '3cosmul'): the code only compares the scores of one   *)
(* call with each other.                                                   *)
(*                                                                         *)
(* Library semantics the model relies on:                                  *)
(*  - np.argpartition(a, -k) raises ValueError when k > len(a); else the   *)
(*    element at position len(a) - k is the one a sort would put there,    *)
(*    smaller or equal ones come before it and larger or equal ones after  *)
(*    it, in an order numpy does not specify.                              *)
(*  - heapq orders the entries (score, index) as tuples; heapq.nlargest    *)
(*    sorts by score, the order of entries of equal score depends on the   *)
(*    layout of the heap.                                                  *)
(***************************************************************************)
SimKeys == 1 .. 3
\* str.lower(), and the collation NOCASE of the column key
lower == <<1, 1, 3>>
UnitVectors == {<<1, 0>>, <<0, 1>>, <<-1, 0>>, <<0, -1>>}
\* the largest table, the largest topn and the most keys one call passes
MaxRows == 3
MaxTopn == 2
MaxGiven == 2

NoCall == [method |-> "none"]

\* self.length
sim_length == Len(sim_store.rows)
\* the record at rowid index + 1, row index of the matrix
SimRow(index) == sim_store.rows[index + 1]
SimIndices == 0 .. (sim_length - 1)

\* _key_t on this store
sim_key_t(key) == IF sim_store.case_insensitive THEN lower[key] ELSE key

\* self.max_duplicate_keys: MAX(COUNT(key)) ... GROUP BY key
max_duplicate_keys ==
    LET key_count(k) ==
            Cardinality({x \in SimIndices : lower[SimRow(x).key] = lower[k]})
    IN  CHOOSE n \in 1 .. sim_length :
            /\ \E k \in SimKeys : key_count(k) = n
            /\ \A k \in SimKeys : key_count(k) <= n

\* the smallest member of a set of numbers
Least(S) == CHOOSE x \in S : \A y \in S : x <= y

\* query(key, normalized=True) for a key of the vocabulary: _vector_for_key
\* on the key transformed by _key_t; NoneVec when the table has no such key
sim_vector_for_key(key) ==
    LET k == sim_key_t(key)
        exact == {x \in SimIndices : SimRow(x).key = k}
        nocase == {x \in SimIndices : lower[SimRow(x).key] = lower[k]}
        hits == IF exact # {} THEN exact ELSE nocase
    IN  IF hits = {} \/ sim_key_t(SimRow(Least(hits)).key) # sim_key_t(k)
        THEN NoneVec
        ELSE SimRow(Least(hits)).vec

InVocabulary(keys) == \A j \in 1 .. Len(keys) : sim_vector_for_key(keys[j]) # NoneVec

Dot(a, b) == a[1] * b[1] + a[2] * b[2]

\* np.sum(self._query_numpy(keys, ...), axis=0)
RECURSIVE sum_vectors(_, _)
sum_vectors(keys, j) ==
    IF j > Len(keys) THEN <<0, 0>>
    ELSE LET v == sim_vector_for_key(keys[j])
             s == sum_vectors(keys, j + 1)
         IN  <<v[1] + s[1], v[2] + s[2]>>

\* positive_vecs + negative_vecs, lines 1229-1250
mean_vector(positive, negative) ==
    LET p == sum_vectors(positive, 1)
        n == sum_vectors(negative, 1)
    IN  <<p[1] - n[1], p[2] - n[2]>>

\* np.prod of (1 + np.dot(row, vec)) over the vectors of keys, lines 1268-1278
RECURSIVE prod_similiarities(_, _, _)
prod_similiarities(vec, keys, j) ==
    IF j > Len(keys) THEN 1
    ELSE (1 + Dot(vec, sim_vector_for_key(keys[j]))) * prod_similiarities(vec, keys, j + 1)

\* similiarities[index], lines 1265-1278
similiarities(method, positive, negative, index) ==
    IF method = "distance"
    THEN <<Dot(SimRow(index).vec, mean_vector(positive, negative)), 1>>
    ELSE <<prod_similiarities(SimRow(index).vec, positive, 1),
           prod_similiarities(SimRow(index).vec, negative, 1) * 10 ^ 6
               + 2 ^ Len(negative)>>

\* the order of two scores
SimLE(a, b) == a[1] * b[2] <= b[1] * a[2]
SimLT(a, b) == a[1] * b[2] < b[1] * a[2]
\* the order of two heap entries (score, index)
EntryLE(e, f) == SimLT(e[1], f[1]) \/ (SimLE(e[1], f[1]) /\ e[2] <= f[2])

\* the batches (batch_start, batch_end) of get_vectors_mmap_batch_generator
\* on a store whose self.batch_size is batch_size
get_vectors_mmap_batch_generator(batch_size) ==
    IF sim_length > batch_size
    THEN [b \in 1 .. ((sim_length + batch_size - 1) \div batch_size) |->
             [batch_start |-> (b - 1) * batch_size,
              batch_end |-> Min((b - 1) * batch_size + batch_size, sim_length)]]
    ELSE <<[batch_start |-> 0, batch_end |-> sim_length]>>

\* the sequences that list every member of S once
Orders(S) ==
    {p \in [1 .. Cardinality(S) -> S] :
        \A a, b \in 1 .. Cardinality(S) : a # b => p[a] # p[b]}

\* np.argpartition(similiarities, -k) on the rows S of a batch (k <= |S|)
argpartition(S, sims, k) ==
    LET n == Cardinality(S)
        kth == IF k = 0 THEN 1 ELSE n - k + 1
    IN  {p \in Orders(S) :
            /\ \A a \in 1 .. (kth - 1) : SimLE(sims[p[a]], sims[p[kth]])
            /\ \A a \in (kth + 1) .. n : SimLE(sims[p[kth]], sims[p[a]])}

\* filtered_indices[0], the smallest entry of the heap
heap_min(heap) == CHOOSE e \in heap : \A f \in heap : EntryLE(e, f)

\* lines 1283-1293 for the rows of partition_results, from position j on
\* (min_similarity is None, and filter_topn >= 1 as the keys of the call are
\* excluded, so that the heap is not empty when it is full)
RECURSIVE heappush_all(_, _, _, _, _)
heappush_all(heap, partition_results, j, sims, filter_topn) ==
    IF j > Len(partition_results) THEN heap
    ELSE LET e == <<sims[partition_results[j]], partition_results[j]>>
         IN  IF Cardinality(heap) < filter_topn
             THEN heappush_all(heap \cup {e}, partition_results, j + 1, sims, filter_topn)
             ELSE IF SimLT(heap_min(heap)[1], e[1])
             THEN heappush_all((heap \ {heap_min(heap)}) \cup {e},
                               partition_results, j + 1, sims, filter_topn)
             ELSE heappush_all(heap, partition_results, j + 1, sims, filter_topn)

\* lines 1262-1293: the heaps the scan of the batches from batch b on can
\* end with, starting from one of heaps; raised when np.argpartition raises
RECURSIVE filtered_indices(_, _, _, _, _)
filtered_indices(heaps, b, sims, filter_topn, batch_size) ==
    LET batches == get_vectors_mmap_batch_generator(batch_size)
    IN  IF b > Len(batches) THEN [raised |-> FALSE, heaps |-> heaps]
        ELSE LET S == batches[b].batch_start .. (batches[b].batch_end - 1)
                 k == Min(filter_topn, Min(batch_size, sim_length))
             IN  IF k > Cardinality(S)
                 THEN [raised |-> TRUE, heaps |-> {}]
                 ELSE filtered_indices(
                          {heappush_all(h, SliceFrom(p, 0 - filter_topn), 1, sims,
                                        filter_topn) :
                              h \in heaps, p \in argpartition(S, sims, k)},
                          b + 1, sims, filter_topn, batch_size)

\* heapq.nlargest(filter_topn, filtered_indices, key=lambda x: x[0])
nlargest(heap) ==
    {p \in Orders(heap) :
        \A a \in 1 .. (Cardinality(heap) - 1) : SimLE(p[a + 1][1], p[a][1])}

\* a variant of _exclude_set that leaves the negative keys out: with it the
\* search returns keys of the call
exclude_positive_only(positive, negative) ==
    {positive[j] : j \in 1 .. Len(positive)}

\* the keys of positive and negative (no vectors are passed)
_exclude_set(positive, negative) ==
    {positive[j] : j \in 1 .. Len(positive)} \cup {negative[j] : j \in 1 .. Len(negative)}

\* lines 1300-1320: self.index(...) gives the key of each row; the loop
\* skips the excluded keys and the keys seen, and stops at topn results
RECURSIVE build_results(_, _, _, _, _)
build_results(topn_indices, j, exclude_keys, acc, topn) ==
    IF j > Len(topn_indices) \/ Len(acc) >= topn THEN acc
    ELSE LET e == topn_indices[j]
             k == sim_key_t(SimRow(e[2]).key)
         IN  IF k \in exclude_keys
             THEN build_results(topn_indices, j + 1, exclude_keys, acc, topn)
             ELSE build_results(topn_indices, j + 1, exclude_keys \cup {k},
                                Append(acc, [key |-> SimRow(e[2]).key,
                                             similarity |-> e[1],
                                             index |-> e[2]]),
                                topn)

\* the results _db_query_similarity can return on a store whose
\* self.batch_size is batch_size
similarity_in_batches(positive, negative, topn, method, batch_size) ==
    LET exclude_keys == {sim_key_t(k) : k \in _exclude_set(positive, negative)}
        filter_topn == max_duplicate_keys * (topn + Cardinality(exclude_keys))
        sims == [x \in SimIndices |-> similiarities(method, positive, negative, x)]
        scanned == filtered_indices({{}}, 1, sims, filter_topn, batch_size)
    IN  IF scanned.raised
        THEN {[raised |-> TRUE, res |-> <<>>]}
        ELSE {[raised |-> FALSE,
               res |-> build_results(t, 1, exclude_keys, <<>>, topn)] :
                  t \in UNION {nlargest(h) : h \in scanned.heaps}}

\* the results _db_query_similarity can return
_db_query_similarity(positive, negative, topn, method) ==
    similarity_in_batches(positive, negative, topn, method, sim_store.batch_size)

\* the lists of positive keys, up to their order (the code sums over them)
Positives ==
    {p \in UNION {[1 .. len -> SimKeys] : len \in 1 .. MaxGiven} :
        \A j \in 1 .. (Len(p) - 1) : p[j] <= p[j + 1]}
Negatives == UNION {[1 .. len -> SimKeys] : len \in 0 .. (MaxGiven - 1)}
\* the arguments of a call: positive keys, negative keys and topn
SimCalls ==
    {c \in [positive : Positives, negative : Negatives, topn : 1 .. MaxTopn] :
        Len(c.positive) + Len(c.negative) <= MaxGiven}
\* the stores, up to a rotation of all their vectors (the scores are dot
\* products): the first record holds <<1, 0>>
SimStores ==
    {s \in [rows : UNION {[1 .. len -> [key : SimKeys, vec : UnitVectors]] :
                             len \in 2 .. MaxRows},
            case_insensitive : BOOLEAN,
            batch_size : 1 .. MaxRows] :
        s.rows[1].vec = <<1, 0>>}

\* one store of one record, for the specifications of the other parts
InitSim ==
    /\ sim_store = [rows |-> <<[key |-> 1, vec |-> <<1, 0>>]>>,
                    case_insensitive |-> FALSE, batch_size |-> MaxRows]
    /\ sim_last = NoCall

InitAnySim ==
    /\ sim_store \in SimStores
    /\ sim_last = NoCall

SimReturns(method, positive, negative, topn) ==
    /\ sim_last = NoCall
    /\ InVocabulary(positive)
    /\ InVocabulary(negative)
    /\ \E out \in _db_query_similarity(positive, negative, topn, method) :
           sim_last' = [method |-> method, positive |-> positive,
                        negative |-> negative, topn |-> topn,
                        raised |-> out.raised, res |-> out.res]
    /\ UNCHANGED sim_store
    /\ UNCHANGED exceptSim

\* most_similar(positive, negative, topn) on keys whose vectors do not
\* cancel (the mean is not the zero vector)
most_similar ==
    \E c \in SimCalls :
        /\ sim_last = NoCall
        /\ InVocabulary(c.positive) /\ InVocabulary(c.negative)
        /\ mean_vector(c.positive, c.negative) # <<0, 0>>
        /\ SimReturns("distance", c.positive, c.negative, c.topn)

\* most_similar_cosmul(positive, negative, topn)
most_similar_cosmul ==
    \E c \in SimCalls :
        /\ sim_last = NoCall
        /\ SimReturns("3cosmul", c.positive, c.negative, c.topn)

NextSim == most_similar \/ most_similar_cosmul

(***************************************************************************)
(* Part 5, the concatenated store: ConcatenatedMagnitude, lines 1615-1697, *)
(* over two stores constructed with the default pad_to_length, pad_left    *)
(* and truncate_left.  A vector is a sequence of numbers, the result for a *)
(* flat list a sequence of vectors, the result for a nested list a         *)
(* sequence of such sequences, whether the store returns arrays or lists.  *)
(*                                                                         *)
(* Library semantics the model relies on:                                  *)
(*  - np.concatenate(ls, axis=-1) joins arrays of equal shape along their  *)
(*    last axis; chain.from_iterable(ls) yields the members of each        *)
(*    member of ls in turn.                                                *)
(*  - q[0] raises IndexError on an empty list.                             *)
(***************************************************************************)
\* m.dim of the two stores
dims == <<1, 2>>
CatKeys == 1 .. 2
\* the longest list and the largest pad_to_length
MaxCatLen == 2
MaxCatT == 3

\* the vector store m holds for a key, as query returns it
cat_vector(m, key, normalized) ==
    [j \in 1 .. dims[m] |-> (10 * m + key) * (IF normalized THEN 1 ELSE Magnitude)]

\* m.query(q, normalized=normalized) on store m, lines 1033-1097, with the
\* options of the store: a list gives one row per key, a nested list one
\* row per key of its longest list, zeros after the keys of a shorter one
magnitude_query(m, kind, q, normalized) ==
    LET max_q == CHOOSE n \in 0 .. MaxCatLen :
                     /\ \A e \in 1 .. Len(q) : Len(q[e]) <= n
                     /\ \E e \in 1 .. Len(q) : Len(q[e]) = n
    IN  CASE kind = "key" -> cat_vector(m, q, normalized)
          [] kind = "list" -> [r \in 1 .. Len(q) |-> cat_vector(m, q[r], normalized)]
          [] kind = "nested" ->
                [e \in 1 .. Len(q) |->
                    [r \in 1 .. max_q |->
                        IF r <= Len(q[e]) THEN cat_vector(m, q[e][r], normalized)
                        ELSE [j \in 1 .. dims[m] |-> 0]]]

\* np.concatenate(<<a, b>>, axis=-1) of two arrays with rank axes
RECURSIVE concatenate(_, _, _)
concatenate(a, b, rank) ==
    IF rank = 1 THEN a \o b
    ELSE [x \in 1 .. Len(a) |-> concatenate(a[x], b[x], rank - 1)]

\* a variant of _hstack that joins the results in the reverse order
hstack_reversed(ls, numpy, rank) ==
    IF numpy THEN concatenate(ls[2], ls[1], rank) ELSE ls[2] \o ls[1]

\* _hstack, lines 1647-1652, of two results with rank axes
_hstack(ls, numpy, rank) ==
    IF numpy THEN concatenate(ls[1], ls[2], rank) ELSE ls[1] \o ls[2]

\* _dstack, lines 1654-1660, of the results for a nested list
_dstack(ls, numpy) ==
    IF numpy THEN concatenate(ls[1], ls[2], 3)
    ELSE [example \in 1 .. Len(ls[1]) |->
             _hstack(<<ls[1][example], ls[2][example]>>, numpy, 2)]

\* self.use_numpy of the concatenated store, line 1634
cat_use_numpy == cat_store.use_numpy[1]

\* ConcatenatedMagnitude.query, lines 1662-1697, on plain keys (multikey is
\* -1 and _take returns q): the options pad_to_length, pad_left and
\* truncate_left are bound at lines 1681-1683 and not used after
cat_query(kind, q, pad_to_length, pad_left, truncate_left, normalized) ==
    LET v == [m \in 1 .. 2 |->
                 magnitude_query(m, kind, q,
                                 IF normalized = "None" THEN self_normalized
                                 ELSE normalized = "True")]
    IN  IF kind = "list" /\ Len(q) = 0
        THEN [raised |-> TRUE, rv |-> <<>>]
        ELSE [raised |-> FALSE,
              rv |-> CASE kind = "key" -> _hstack(v, cat_use_numpy, 1)
                       [] kind = "list" -> _hstack(v, cat_use_numpy, 2)
                       [] kind = "nested" -> _dstack(v, cat_use_numpy)]

CatLists == UNION {[1 .. len -> CatKeys] : len \in 0 .. MaxCatLen}
CatNested ==
    UNION {[1 .. len -> (CatLists \ {<<>>})] : len \in 1 .. MaxCatLen}

\* the two stores, each with its use_numpy, before they are concatenated
InitCat ==
    /\ cat_store = [use_numpy |-> <<TRUE, TRUE>>, magnitudes |-> <<>>]
    /\ cat_last = NoCall

InitAnyCat ==
    /\ cat_store \in [use_numpy : {<<a, b>> : a, b \in BOOLEAN}, magnitudes : {<<>>}]
    /\ cat_last = NoCall

\* ConcatenatedMagnitude(m1, m2), lines 1623-1634
ConcatenatedMagnitude ==
    /\ cat_last = NoCall
    /\ IF cat_store.use_numpy[1] = cat_store.use_numpy[2]
       THEN /\ cat_store' = [cat_store EXCEPT !.magnitudes = <<1, 2>>]
            /\ cat_last' = [method |-> "init", raised |-> FALSE]
       ELSE /\ cat_last' = [method |-> "init", raised |-> TRUE]
            /\ UNCHANGED cat_store
    /\ UNCHANGED exceptCat

\* the concatenated store exists and no query was made
Concatenated == cat_last = [method |-> "init", raised |-> FALSE]

CatReturns(kind, q, pad_to_length, pad_left, truncate_left, normalized) ==
    /\ LET out == cat_query(kind, q, pad_to_length, pad_left, truncate_left, normalized)
       IN  cat_last' = [method |-> "query", kind |-> kind, q |-> q,
                        pad_to_length |-> pad_to_length, pad_left |-> pad_left,
                        truncate_left |-> truncate_left, normalized |-> normalized,
                        raised |-> out.raised, rv |-> out.rv]
    /\ UNCHANGED cat_store
    /\ UNCHANGED exceptCat

cat_query_key ==
    /\ Concatenated
    /\ \E q \in CatKeys, normalized \in Options :
           CatReturns("key", q, None, "None", "None", normalized)

cat_query_list ==
    /\ Concatenated
    /\ \E q \in CatLists, pad_to_length \in 0 .. MaxCatT, pad_left \in Options,
          truncate_left \in Options :
           CatReturns("list", q, pad_to_length, pad_left, truncate_left, "None")

cat_query_nested ==
    /\ Concatenated
    /\ \E q \in CatNested : CatReturns("nested", q, None, "None", "None", "None")

NextCat ==
    ConcatenatedMagnitude \/ cat_query_key \/ cat_query_list \/ cat_query_nested

(***************************************************************************)
(* Part 6, the lookup of rows by position: index, _key_for_index and       *)
(* _keys_for_indices, lines 963-1031 and 1104-1109, on a table of Length   *)
(* records, called one after the other.  The cache of _key_for_index holds *)
(* the pairs (index, return_vector) it has a value for.                    *)
(*                                                                         *)
(* Library semantics the model relies on: % binds tighter than -, so       *)
(* "..." % n - 1 subtracts 1 from a string, which raises TypeError.        *)
(***************************************************************************)
\* the indices looked up: -1 and Length name no row
Indices == -1 .. Length
\* how many calls of index one behaviour makes, and the longest list
MaxIndexCalls == 2
MaxIndices == 2

\* what a row lookup returns for the row at index: its key, with its vector
\* when return_vector is true
IndexValue(index, return_vector) == [key |-> index + 1, vector |-> return_vector]

\* _key_for_index, lines 963-983: SELECT ... WHERE rowid = index + 1
_key_for_index(index, return_vector) ==
    IF index \in Rows
    THEN [raised |-> "none", rv |-> <<IndexValue(index, return_vector)>>]
    ELSE [raised |-> "IndexError", rv |-> <<>>]

\* self._key_for_index_cached(index, return_vector=...): the decorated
\* _key_for_index, which files the value a call returns
_key_for_index_cached(cache, index, return_vector) ==
    IF <<index, return_vector>> \in cache
    THEN [raised |-> "none", rv |-> <<IndexValue(index, return_vector)>>, cache |-> cache]
    ELSE [raised |-> _key_for_index(index, return_vector).raised,
          rv |-> _key_for_index(index, return_vector).rv,
          cache |-> IF _key_for_index(index, return_vector).raised = "none"
                    THEN cache \cup {<<index, return_vector>>} ELSE cache]

\* _keys_for_indices, lines 985-1031
_keys_for_indices(cache, indices, return_vector) ==
    LET \* line 987: the positions of indices that are not cached
        unseen_indices == SelectSeq(indices, LAMBDA x : <<x, return_vector>> \notin cache)
        \* line 996: the last position of an index in unseen_indices
        unseen_indices_map(x) ==
            CHOOSE p \in 1 .. Len(unseen_indices) :
                /\ unseen_indices[p] = x
                /\ \A r \in (p + 1) .. Len(unseen_indices) : unseen_indices[r] # x
        \* lines 1009-1016: the SELECT gives every row once
        found(p) == unseen_indices[p] \in Rows /\ unseen_indices_map(unseen_indices[p]) = p
        \* lines 1017-1023
        put == cache \cup {<<unseen_indices[p], return_vector>> :
                              p \in {r \in 1 .. Len(unseen_indices) : found(r)}}
    IN  IF \E p \in 1 .. Len(unseen_indices) : ~found(p)
        THEN \* lines 1024-1027: the message of the IndexError cannot be built
             [raised |-> "TypeError", rv |-> <<>>, cache |-> put]
        ELSE [raised |-> "none",
              rv |-> [p \in 1 .. Len(indices) |-> IndexValue(indices[p], return_vector)],
              cache |-> put]

IndexLists == UNION {[1 .. len -> Indices] : len \in 0 .. MaxIndices}

InitIndex ==
    /\ index_cache = {}
    /\ index_calls = 0
    /\ index_last = NoCall

\* index_last.q lists the indices asked for, a single index as a list of one
IndexReturns(kind, q, return_vector, out) ==
    /\ index_cache' = out.cache
    /\ index_calls' = index_calls + 1
    /\ index_last' = [method |-> "index", kind |-> kind, q |-> q,
                      return_vector |-> return_vector, raised |-> out.raised,
                      rv |-> out.rv]
    /\ UNCHANGED exceptIndex

\* index(q) with a single index, lines 1104-1109
index_single ==
    /\ index_calls < MaxIndexCalls
    /\ \E q \in Indices, return_vector \in BOOLEAN :
           IndexReturns("single", <<q>>, return_vector,
                        _key_for_index_cached(index_cache, q, return_vector))

\* index(q) with a list of indices
index_list ==
    /\ index_calls < MaxIndexCalls
    /\ \E q \in IndexLists, return_vector \in BOOLEAN :
           IndexReturns("list", q, return_vector,
                        _keys_for_indices(index_cache, q, return_vector))

NextIndex == index_single \/ index_list

(***************************************************************************)
(* Part 7, the handles on the storage of one store: _db, lines 443-466,    *)
(* the background threads the constructor starts, lines 347-390, and       *)
(* close, lines 1547-1577.                                                 *)
(*                                                                         *)
(* Threads 1 and 2 are the constructor's mmap_thread and preload_thread,   *)
(* thread 3 is the thread that constructed the store, and the threads from *)
(* 4 on are workers started later.  Connections and cursors are numbered   *)
(* in the order they are made.  The callers of the store make no call once *)
(* close has been called; the background threads run on.                   *)
(*                                                                         *)
(* Library semantics the model relies on: threading gives a new thread an  *)
(* identifier that no live thread has, and may recycle the identifier of a *)
(* thread that has exited; is_alive is true from start until the target    *)
(* returns.                                                                *)
(***************************************************************************)
MmapThread == 1
PreloadThread == 2
Constructor == 3
\* the threads that use the store, the identifiers threading has to give, and
\* the calls of _db one thread makes
MaxThreads == 4
MaxIdent == 4
MaxDbCalls == 2

DbThreads == 1 .. MaxThreads
DbBackground == {MmapThread, PreloadThread}
Idents == 1 .. MaxIdent
NoHandle == 0

\* the identifiers of the live threads
LiveIdents == {db_thread[t].ident : t \in {u \in DbThreads : db_thread[u].state = "live"}}

\* the mutation of threads_alive: close that does not wait
threads_ignored == FALSE

\* any([t.is_alive() for t in self._threads]), line 1550
threads_alive == \E t \in DbBackground : db_thread[t].state = "live"

\* _db, lines 443-466, called on the thread with this identifier: what it
\* leaves in _all_conns, _conns, _cursors, the cursors made, and the cursor
\* it returns
_db(identifier, force_new) ==
    LET conn_exists == _cursors[identifier] # NoHandle
        opens == ~conn_exists \/ force_new
        conn == conns_made + 1
        cursor == Len(cursor_conn) + 1
    IN  [opens |-> opens,
         conn |-> conn,
         all_conns |-> IF opens THEN Append(_all_conns, conn) ELSE _all_conns,
         conns |-> IF ~conn_exists THEN [_conns EXCEPT ![identifier] = conn] ELSE _conns,
         cursors |-> IF ~conn_exists
                     THEN [_cursors EXCEPT ![identifier] = cursor] ELSE _cursors,
         cursor_conn |-> IF opens THEN Append(cursor_conn, conn) ELSE cursor_conn,
         rv |-> IF ~conn_exists THEN cursor
                ELSE IF force_new THEN cursor
                ELSE _cursors[identifier]]

\* the call of _db by thread t, with what it returned filed in db_calls
CallDb(t, force_new) ==
    LET out == _db(db_thread[t].ident, force_new)
    IN  /\ _all_conns' = out.all_conns
        /\ _conns' = out.conns
        /\ _cursors' = out.cursors
        /\ cursor_conn' = out.cursor_conn
        /\ conns_made' = IF out.opens THEN conns_made + 1 ELSE conns_made
        /\ conn_open' = IF out.opens THEN conn_open \cup {out.conn} ELSE conn_open
        /\ db_calls' = [db_calls EXCEPT ![t] =
               Append(@, [force_new |-> force_new, rv |-> out.rv, opened |-> out.opens])]

\* the store when its constructor returns: eager started mmap_thread,
\* preload (lazy_loading = -1, not blocking) started preload_thread, and the
\* constructing thread has read the metadata through _db() (line 276 on)
InitDb ==
    \E eager \in BOOLEAN, preload \in BOOLEAN :
        /\ db_thread = [t \in DbThreads |->
               IF t = Constructor \/ (t = MmapThread /\ eager) \/ (t = PreloadThread /\ preload)
               THEN [state |-> "live", ident |-> t,
                     step |-> IF t = Constructor THEN "caller"
                              ELSE IF t = PreloadThread /\ eager THEN "exit"
                              ELSE "start",
                     delivered |-> 0]
               ELSE [state |-> "new", ident |-> 0, step |-> "caller", delivered |-> 0]]
        /\ _all_conns = <<1>>
        /\ _conns = [ident \in Idents |-> IF ident = Constructor THEN 1 ELSE NoHandle]
        /\ _cursors = [ident \in Idents |-> IF ident = Constructor THEN 1 ELSE NoHandle]
        /\ cursor_conn = <<1>>
        /\ conns_made = 1
        /\ conn_open = {1}
        /\ handles = [fd |-> TRUE, mmap |-> TRUE]
        /\ db_closed = FALSE
        /\ close_pc = "idle"
        /\ db_calls = [t \in DbThreads |->
               IF t = Constructor
               THEN <<[force_new |-> FALSE, rv |-> 1, opened |-> TRUE]>> ELSE <<>>]

\* threading.Thread(...).start() of a worker, before close is called
worker_start(t) ==
    /\ close_pc = "idle"
    /\ t \notin DbBackground
    /\ db_thread[t].state = "new"
    /\ \E ident \in Idents \ LiveIdents :
           db_thread' = [db_thread EXCEPT ![t].state = "live", ![t].ident = ident]
    /\ UNCHANGED <<_all_conns, _conns, _cursors, cursor_conn, conns_made, conn_open,
                   handles, db_closed, close_pc, db_calls>>
    /\ UNCHANGED exceptDb

\* a lookup (_db()) or the start of a scan (_db(force_new=True)) on a
\* worker's thread
worker_db(t) ==
    /\ close_pc = "idle"
    /\ t \notin DbBackground
    /\ db_thread[t].state = "live"
    /\ Len(db_calls[t]) < MaxDbCalls
    /\ \E force_new \in BOOLEAN : CallDb(t, force_new)
    /\ UNCHANGED <<db_thread, handles, db_closed, close_pc>>
    /\ UNCHANGED exceptDb

\* the target of a worker's thread returns
worker_exit(t) ==
    /\ t \notin DbBackground
    /\ db_thread[t].state = "live"
    /\ db_thread' = [db_thread EXCEPT ![t].state = "done"]
    /\ UNCHANGED <<_all_conns, _conns, _cursors, cursor_conn, conns_made, conn_open,
                   handles, db_closed, close_pc, db_calls>>
    /\ UNCHANGED exceptDb

\* a background thread reaches _iter, line 1511: db = self._db(force_new=True);
\* mmap_thread gets there only when it builds the file
background_db(t) ==
    /\ t \in DbBackground
    /\ db_thread[t].state = "live"
    /\ db_thread[t].step = "start"
    /\ \/ /\ CallDb(t, TRUE)
          /\ db_thread' = [db_thread EXCEPT ![t].step = "scan"]
       \/ /\ t = MmapThread
          /\ db_thread' = [db_thread EXCEPT ![t].step = "exit"]
          /\ UNCHANGED <<_all_conns, _conns, _cursors, cursor_conn, conns_made,
                         conn_open, db_calls>>
    /\ UNCHANGED <<handles, db_closed, close_pc>>
    /\ UNCHANGED exceptDb

\* _iter, lines 1517-1520: the next record, and return if self.closed
background_scan(t) ==
    /\ t \in DbBackground
    /\ db_thread[t].state = "live"
    /\ db_thread[t].step = "scan"
    /\ db_thread' =
           IF db_thread[t].delivered = Length
           THEN [db_thread EXCEPT ![t].step = "exit"]
           ELSE [db_thread EXCEPT ![t].delivered = @ + 1,
                                  ![t].step = IF db_closed THEN "exit" ELSE "scan"]
    /\ UNCHANGED <<_all_conns, _conns, _cursors, cursor_conn, conns_made, conn_open,
                   handles, db_closed, close_pc, db_calls>>
    /\ UNCHANGED exceptDb

\* the target of a background thread returns
background_exit(t) ==
    /\ t \in DbBackground
    /\ db_thread[t].state = "live"
    /\ db_thread[t].step = "exit"
    /\ db_thread' = [db_thread EXCEPT ![t].state = "done"]
    /\ UNCHANGED <<_all_conns, _conns, _cursors, cursor_conn, conns_made, conn_open,
                   handles, db_closed, close_pc, db_calls>>
    /\ UNCHANGED exceptDb

\* close, line 1549: self.closed = True
close_flag ==
    /\ close_pc = "idle"
    /\ db_closed' = TRUE
    /\ close_pc' = "wait"
    /\ UNCHANGED <<db_thread, _all_conns, _conns, _cursors, cursor_conn, conns_made,
                   conn_open, handles, db_calls>>
    /\ UNCHANGED exceptDb

\* close, lines 1550-1551: the loop ends when no thread of self._threads is alive
close_wait ==
    /\ close_pc = "wait"
    /\ ~threads_alive
    /\ close_pc' = "conns"
    /\ UNCHANGED <<db_thread, _all_conns, _conns, _cursors, cursor_conn, conns_made,
                   conn_open, handles, db_closed, db_calls>>
    /\ UNCHANGED exceptDb

\* close, lines 1552-1556: conn.close() for every conn of self._all_conns
close_conns ==
    /\ close_pc = "conns"
    /\ conn_open' = conn_open \ {_all_conns[p] : p \in 1 .. Len(_all_conns)}
    /\ close_pc' = "fd"
    /\ UNCHANGED <<db_thread, _all_conns, _conns, _cursors, cursor_conn, conns_made,
                   handles, db_closed, db_calls>>
    /\ UNCHANGED exceptDb

\* close, lines 1557-1561: os.close(self.fd)
close_fd ==
    /\ close_pc = "fd"
    /\ handles' = [handles EXCEPT !.fd = FALSE]
    /\ close_pc' = "mmap"
    /\ UNCHANGED <<db_thread, _all_conns, _conns, _cursors, cursor_conn, conns_made,
                   conn_open, db_closed, db_calls>>
    /\ UNCHANGED exceptDb

\* close, lines 1562-1577: self._all_vectors._mmap.close() and the rest
close_mmap ==
    /\ close_pc = "mmap"
    /\ handles' = [handles EXCEPT !.mmap = FALSE]
    /\ close_pc' = "done"
    /\ UNCHANGED <<db_thread, _all_conns, _conns, _cursors, cursor_conn, conns_made,
                   conn_open, db_closed, db_calls>>
    /\ UNCHANGED exceptDb

DbThreadStep(t) ==
    \/ worker_start(t)
    \/ worker_db(t)
    \/ worker_exit(t)
    \/ background_db(t)
    \/ background_scan(t)
    \/ background_exit(t)

NextDb ==
    \/ \E t \in DbThreads : DbThreadStep(t)
    \/ close_flag
    \/ close_wait
    \/ close_conns
    \/ close_fd
    \/ close_mmap

(***************************************************************************)
(* Part 8, the registry of in-process locks: _setup_for_mmap, lines        *)
(* 420-437, called once by each of several store objects of one process    *)
(* that were opened on the same file, so that their path_to_mmap is equal. *)
(* A lock object takes the id of the store whose call created it.  The     *)
(* steps are those of Part 1 (setup_check, setup_put, setup_get), here on  *)
(* stores that share the process.                                          *)
(***************************************************************************)
\* the store objects of the process
MaxSetupStores == 3
SetupStores == 1 .. MaxSetupStores

InitSetup ==
    /\ path_lock = NoLock
    /\ setup = [s \in SetupStores |-> [pc |-> "idle", MMAP_THREAD_LOCK |-> NoLock]]

\* lines 420-432: the call begins and computes self.path_to_mmap
_setup_for_mmap(s) ==
    /\ setup[s].pc = "idle"
    /\ setup' = [setup EXCEPT ![s].pc = "check"]
    /\ UNCHANGED path_lock
    /\ UNCHANGED exceptSetup

\* line 433: if self.path_to_mmap not in Magnitude.MMAP_THREAD_LOCK
_setup_for_mmap_check(s) ==
    /\ setup[s].pc = "check"
    /\ setup' = [setup EXCEPT ![s].pc = IF path_lock = NoLock THEN "put" ELSE "get"]
    /\ UNCHANGED path_lock
    /\ UNCHANGED exceptSetup

\* line 434: Magnitude.MMAP_THREAD_LOCK[self.path_to_mmap] = threading.Lock()
_setup_for_mmap_put(s) ==
    /\ setup[s].pc = "put"
    /\ path_lock' = s
    /\ setup' = [setup EXCEPT ![s].pc = "get"]
    /\ UNCHANGED exceptSetup

\* lines 435-437: self.MMAP_THREAD_LOCK = Magnitude.MMAP_THREAD_LOCK[path]
_setup_for_mmap_get(s) ==
    /\ setup[s].pc = "get"
    /\ setup' = [setup EXCEPT ![s].pc = "done", ![s].MMAP_THREAD_LOCK = path_lock]
    /\ UNCHANGED path_lock
    /\ UNCHANGED exceptSetup

NextSetup ==
    \E s \in SetupStores :
        \/ _setup_for_mmap(s)
        \/ _setup_for_mmap_check(s)
        \/ _setup_for_mmap_put(s)
        \/ _setup_for_mmap_get(s)

(***************************************************************************)
(* Part 9, the preload of the lookup cache by the constructor of a store   *)
(* opened with lazy_loading = -1: __init__, lines 347-390 and 417-418,     *)
(* with get_vectors_mmap as the constructor and mmap_thread run it, lines  *)
(* 1398-1462.  The locks are taken and released as the spec describes      *)
(* (Part 1 has the steps of the code); "other" is a worker of another      *)
(* store or process that builds the file.  The cache holds the rows whose  *)
(* vector is filed under the store's normalized flag.                      *)
(***************************************************************************)
PreThreads == {"constructor", "mmap_thread", "preload_thread"}
NoBuilder == "none"

\* A store whose file exists when it is opened is the store whose file the
\* other worker completes before the constructor takes its first step.
InitPreload ==
    \E eager \in BOOLEAN, blocking \in BOOLEAN, other \in BOOLEAN :
        /\ pre = [eager |-> eager, blocking |-> blocking,
                  \* the file at path_to_mmap, and who holds the two locks
                  mmap |-> FALSE,
                  builder |-> IF other THEN "other" ELSE NoBuilder,
                  \* self._vector_for_key_cached._cache
                  cache |-> {},
                  \* the lookups that reached the storage (history)
                  storage |-> {}]
        /\ pre_pc = [t \in PreThreads |->
               [pc |-> IF t = "constructor" THEN "start" ELSE "new", i |-> 0]]

\* lines 356-361: if self.eager: mmap_thread.start()
start_mmap_thread ==
    /\ pre_pc["constructor"].pc = "start"
    /\ pre_pc' = [pre_pc EXCEPT !["constructor"].pc = "lazy_loading",
                                !["mmap_thread"].pc = IF pre.eager THEN "memmap" ELSE "new"]
    /\ UNCHANGED pre
    /\ UNCHANGED exceptPreload

\* lines 383-390: if blocking: _preload_memory() else: preload_thread.start()
start_preload ==
    /\ pre_pc["constructor"].pc = "lazy_loading"
    /\ pre_pc' = IF pre.blocking
                 THEN [pre_pc EXCEPT !["constructor"].pc = "preload"]
                 ELSE [pre_pc EXCEPT !["constructor"].pc = "eager",
                                     !["preload_thread"].pc = "preload"]
    /\ UNCHANGED pre
    /\ UNCHANGED exceptPreload

\* _preload_memory, lines 348-351: if not self.eager, one round of
\* for key, vector in self._iter(put_cache=True); then the function returns
_preload_memory(t) ==
    /\ t \in {"constructor", "preload_thread"}
    /\ pre_pc[t].pc = "preload"
    /\ IF ~pre.eager /\ pre_pc[t].i < Length
       THEN /\ pre' = [pre EXCEPT !.cache = @ \cup {pre_pc[t].i}]
            /\ pre_pc' = [pre_pc EXCEPT ![t].i = @ + 1]
       ELSE /\ pre_pc' = [pre_pc EXCEPT ![t].pc = IF t = "constructor" THEN "eager" ELSE "done",
                                        ![t].i = 0]
            /\ UNCHANGED pre
    /\ UNCHANGED exceptPreload

\* lines 417-418: if self.eager and blocking: self.get_vectors_mmap(); then
\* the constructor returns
wait_for_mmap ==
    /\ pre_pc["constructor"].pc = "eager"
    /\ pre_pc' = [pre_pc EXCEPT !["constructor"].pc =
                      IF pre.eager /\ pre.blocking THEN "memmap" ELSE "done"]
    /\ UNCHANGED pre
    /\ UNCHANGED exceptPreload

\* get_vectors_mmap, lines 1404-1429 and 1461: the file is mapped if it
\* exists; if not, the thread builds it when it obtains the locks and polls
\* when it does not
pre_try_memmap(t) ==
    /\ t \in {"constructor", "mmap_thread"}
    /\ pre_pc[t].pc = "memmap"
    /\ IF pre.mmap
       THEN /\ pre_pc' = [pre_pc EXCEPT ![t].pc = "done"]
            /\ UNCHANGED pre
       ELSE IF pre.builder = NoBuilder
       THEN /\ pre' = [pre EXCEPT !.builder = t]
            /\ pre_pc' = [pre_pc EXCEPT ![t].pc = "build", ![t].i = 0]
       ELSE UNCHANGED <<pre, pre_pc>>
    /\ UNCHANGED exceptPreload

\* get_vectors_mmap, lines 1430-1460: one round of the scan through
\* self._iter(put_cache=self.lazy_loading == -1), or the rename and the
\* release of the locks
pre_build(t) ==
    /\ t \in {"constructor", "mmap_thread"}
    /\ pre_pc[t].pc = "build"
    /\ IF pre_pc[t].i < Length
       THEN /\ pre' = [pre EXCEPT !.cache = @ \cup {pre_pc[t].i}]
            /\ pre_pc' = [pre_pc EXCEPT ![t].i = @ + 1]
       ELSE /\ pre' = [pre EXCEPT !.mmap = TRUE, !.builder = NoBuilder]
            /\ pre_pc' = [pre_pc EXCEPT ![t].pc = "memmap", ![t].i = 0]
    /\ UNCHANGED exceptPreload

\* the worker of another store finishes its build of the file
other_build ==
    /\ pre.builder = "other"
    /\ pre' = [pre EXCEPT !.mmap = TRUE, !.builder = NoBuilder]
    /\ UNCHANGED pre_pc
    /\ UNCHANGED exceptPreload

\* a query for a stored key once the constructor has returned:
\* _vector_for_key_cached goes to the storage when the cache has no entry
pre_query ==
    /\ pre_pc["constructor"].pc = "done"
    /\ \E key \in Rows :
           pre' = [pre EXCEPT !.storage = IF key \in pre.cache THEN @ ELSE @ \cup {key}]
    /\ UNCHANGED pre_pc
    /\ UNCHANGED exceptPreload

NextPreload ==
    \/ start_mmap_thread
    \/ start_preload
    \/ \E t \in PreThreads : _preload_memory(t)
    \/ wait_for_mmap
    \/ \E t \in PreThreads : pre_try_memmap(t)
    \/ \E t \in PreThreads : pre_build(t)
    \/ other_build
    \/ pre_query

(***************************************************************************)
(* Specifications                                                          *)
(***************************************************************************)
\* the parts after the query facade, each with its store as constructed
\* the store of Part 7 with mmap_thread started and no preload_thread
InitOneDb ==
    /\ InitDb
    /\ db_thread[MmapThread].state = "live"
    /\ db_thread[PreloadThread].state = "new"
\* the store of Part 9 opened with eager and blocking while no file exists
InitOnePreload ==
    /\ InitPreload
    /\ pre.eager /\ pre.blocking /\ ~pre.mmap /\ pre.builder = NoBuilder
InitLater == InitSim /\ InitCat /\ InitIndex /\ InitOneDb /\ InitSetup /\ InitOnePreload

Init == InitMmap /\ InitOOV /\ InitQuery /\ InitLater
InitAny == InitMmap /\ InitOOV /\ InitAnyQuery /\ InitLater

Spec == Init /\ [][Next]_vars

\* Every thread that can take a step is scheduled eventually; close() and the
\* I/O errors are up to the environment.
Fairness == \A w \in Workers : WF_vars(WorkerStep(w))
SpecFair == Init /\ [][Next]_vars /\ Fairness

SpecOOV == Init /\ [][NextOOV]_vars
SpecCache == InitAny /\ [][NextCache]_vars
SpecPad == InitAny /\ [][NextPad]_vars
InitCase == InitMmap /\ InitOOV /\ InitCaseQuery /\ InitLater
SpecCase == InitCase /\ [][NextCache]_vars
InitSimAny ==
    InitMmap /\ InitOOV /\ InitQuery /\ InitAnySim /\ InitCat /\ InitIndex /\ InitOneDb /\ InitSetup
        /\ InitOnePreload
InitCatAny ==
    InitMmap /\ InitOOV /\ InitQuery /\ InitSim /\ InitAnyCat /\ InitIndex /\ InitOneDb /\ InitSetup
        /\ InitOnePreload
InitDbAny ==
    InitMmap /\ InitOOV /\ InitQuery /\ InitSim /\ InitCat /\ InitIndex /\ InitDb /\ InitSetup
        /\ InitOnePreload
SpecSim == InitSimAny /\ [][NextSim]_vars
SpecCat == InitCatAny /\ [][NextCat]_vars
SpecIndex == Init /\ [][NextIndex]_vars
SpecDb == InitDbAny /\ [][NextDb]_vars
SpecSetup == Init /\ [][NextSetup]_vars
InitPreloadAny ==
    InitMmap /\ InitOOV /\ InitQuery /\ InitSim /\ InitCat /\ InitIndex /\ InitOneDb
        /\ InitSetup /\ InitPreload
SpecPreload == InitPreloadAny /\ [][NextPreload]_vars

(***************************************************************************)
(* Properties of the memmap builder.                                       *)
(***************************************************************************)

\* w is inside the build section: after "if tlock and plock", before the finally
InBuild(w) == pc[w] \in BuildPcs
Builders == {w \in Workers : InBuild(w)}
\* w is between two attempts of the polling loop
Polling(w) == pc[w] \in PollPcs
\* w locked an in-process lock and w's process owns the file lock
HoldsThreadLock(w) == \E l \in Locks : locked[l] = w
HoldsBothLocks(w) == HoldsThreadLock(w) /\ process_lock = ProcOfWorker(w)

\* C1: at any moment at most one worker, over all threads, stores and
\* processes, is inside the build section, and a worker inside it holds both
\* the in-process lock and the cross-process file lock.
C1_SingleBuilder ==
    /\ Cardinality(Builders) <= 1
    /\ \A w \in Builders : HoldsBothLocks(w)

\* C2: whenever the file at path_to_mmap exists it is complete: it holds all
\* Length rows, row r being the vector of the r-th record (the rename that puts
\* it there comes after the whole scan).
C2_FileComplete == mmap # NoFile => rows[mmap] = Rows

\* the call of w has returned the matrix
ReturnedMatrix(w) == pc[w] = "returned" /\ rv[w] \in Files

\* C4: once some worker has completed a build (the file is in place), every
\* worker that is polling for the path returns the matrix, without raising;
\* stated for the runs without I/O error and without close(), where nothing
\* but the code decides how the call ends.
C4_PollersReturn ==
    \A w \in Workers :
        (polled_after_build[w] /\ errors = 0 /\ \A s \in Stores : ~closed[s]) =>
            /\ pc[w] # "raised"
            /\ pc[w] = "returned" => rv[w] \in Files

\* a build has ended without producing the file: its worker raised, or
\* returned None from the build section
BuildEndedWithoutFile ==
    /\ mmap = NoFile
    /\ \E w \in Workers : pc[w] = "raised" \/ (pc[w] = "returned" /\ rv[w] = None)

\* C5: if a build ends without producing the file while a worker of an open
\* store is still polling, eventually some worker starts a new build.
C5_BuildRetried ==
    (BuildEndedWithoutFile /\ \E w \in Workers : Polling(w) /\ ~closed[StoreOf[w]])
        ~> (\E w \in Workers : InBuild(w))

\* C3: a call made while the file exists never attempts a lock, scans the
\* table, or creates, writes or renames a file, and (on a store that is not
\* being closed) it does not raise and returns the matrix.
C3_ReuseExisting ==
    \A w \in Workers : file_at_call[w] # NoFile =>
        /\ pc[w] \notin {"tlock", "plock", "release_tlock", "release_plock"} \cup BuildPcs
        /\ ~closed[StoreOf[w]] => pc[w] # "raised"
        /\ ~closed[StoreOf[w]] /\ pc[w] = "returned" => rv[w] \in Files

(***************************************************************************)
(* Out-of-vocabulary synthesis: claims                                     *)
(***************************************************************************)

\* C6: every synthesis of a key on a store with the same contents, namespace
\* and configuration yields the identical vector, whatever was synthesized
\* before or between
C6_OOVDeterministic ==
    \A s \in OOVStores, k \in OOVKeys : Cardinality(synthesized[s][k]) <= 1

\* C7: nobody changes the state of the global generator between a thread's
\* seeding of it and that thread's following draw, every operation on the
\* generator being made under OOV_RNG_LOCK
C7_RngSerialized ==
    \A t \in Threads :
        opc[t] = "uniform" => rng = [seed |-> seed[t], n |-> 0]

(***************************************************************************)
(* The query facade: claims                                                *)
(***************************************************************************)

\* C8: a key queried before with the same normalized flag, alone or in a flat
\* list, is answered with an equal vector and without any statement on the
\* storage layer
C8_RepeatQueryCached ==
    (last.kind \in {"key", "list"} /\ last.repeat) =>
        /\ db_queries = 0
        /\ \A j \in 1 .. Len(last.q) :
              last.vectors[j] = first_answer[<<last.q[j], last.normalized>>]

\* C9: a flat list queried with pad_to_length T gives exactly T rows of dim
\* numbers each, whatever the length of the list, the sides and the
\* representation
C9_ExactlyTRows ==
    last.kind = "padded" =>
        /\ ~last.raised
        /\ Len(last.rv) = last.pad_to_length
        /\ \A r \in 1 .. Len(last.rv) : Len(last.rv[r]) = dim

\* the rows C10 describes for L keys with vectors v and pad_to_length T
ExpectedRows(v, T, pad_left, truncate_left) ==
    [r \in 1 .. T |->
        IF Len(v) >= T
        THEN v[IF truncate_left THEN Len(v) - T + r ELSE r]
        ELSE IF pad_left
        THEN (IF r > T - Len(v) THEN v[r - (T - Len(v))] ELSE _padding_vector)
        ELSE (IF r <= Len(v) THEN v[r] ELSE _padding_vector)]

\* C10: with L >= T the rows are the vectors of the first T keys (the last T
\* when truncate_left); with L < T the key vectors are the first L rows (the
\* last L when pad_left) and every other row is the padding vector
C10_RowContents ==
    last.kind = "padded" =>
        /\ ~last.raised
        /\ last.rv = ExpectedRows(last.vectors, last.pad_to_length, last.pad_left,
                                  last.truncate_left)

(***************************************************************************)
(* Properties of the similarity search.                                    *)
(***************************************************************************)

\* the keys the last call passed as positive or negative, after _key_t
GivenKeys ==
    {sim_key_t(sim_last.positive[j]) : j \in 1 .. Len(sim_last.positive)}
        \cup {sim_key_t(sim_last.negative[j]) : j \in 1 .. Len(sim_last.negative)}
\* the stored keys other than the keys of the call
OtherKeys == {sim_key_t(SimRow(x).key) : x \in SimIndices} \ GivenKeys
\* the keys the last call returned
ReturnedKeys == {sim_key_t(sim_last.res[j].key) : j \in 1 .. Len(sim_last.res)}
\* the cosine similarity of row x to the query vector of the last call
SimScore(x) ==
    similiarities(sim_last.method, sim_last.positive, sim_last.negative, x)
\* no key twice
NoKeyTwice == Cardinality(ReturnedKeys) = Len(sim_last.res)

\* the result lists rows of the table with their scores, best first, each key
\* with its best row, and no row left out beats a row listed: it is a prefix
\* of a sort of all rows by descending score with the keys of the call
\* removed
BruteForcePrefix ==
    LET res == sim_last.res
    IN  /\ \A j \in 1 .. Len(res) :
               /\ res[j].index \in SimIndices
               /\ res[j].key = SimRow(res[j].index).key
               /\ res[j].similarity = SimScore(res[j].index)
               /\ \A x \in SimIndices :
                      sim_key_t(SimRow(x).key) = sim_key_t(res[j].key)
                          => SimLE(SimScore(x), res[j].similarity)
               /\ \A x \in SimIndices :
                      sim_key_t(SimRow(x).key) \notin (GivenKeys \cup ReturnedKeys)
                          => SimLE(SimScore(x), res[j].similarity)
        /\ \A j \in 1 .. (Len(res) - 1) : SimLE(res[j + 1].similarity, res[j].similarity)
        /\ NoKeyTwice

\* C11: on a store of unit vectors most_similar with a topn not larger than
\* the number of stored keys other than the keys of the call returns topn
\* keys in the order of a brute-force sort of all rows by descending cosine
\* similarity to the query vector, the keys of the call removed.
C11_BruteForceOrder ==
    (sim_last.method = "distance" /\ sim_last.topn <= Cardinality(OtherKeys)) =>
        /\ ~sim_last.raised
        /\ Len(sim_last.res) = sim_last.topn
        /\ BruteForcePrefix

\* C12: most_similar and most_similar_cosmul never return a key that was
\* passed as a positive or negative key, compared after case folding on a
\* case-insensitive store.
C12_GivenKeysExcluded ==
    sim_last # NoCall => ReturnedKeys \cap GivenKeys = {}

\* a case-insensitive store answered most_similar_cosmul with some keys, and
\* its best row holds the other spelling of a key of the call
C12_ExcludedIsBest ==
    /\ sim_last # NoCall
    /\ sim_last.method = "3cosmul"
    /\ sim_store.case_insensitive
    /\ ~sim_last.raised
    /\ Len(sim_last.res) >= 1
    /\ \E x \in SimIndices :
           /\ sim_key_t(SimRow(x).key) \in GivenKeys
           /\ sim_key_t(SimRow(x).key) # SimRow(x).key
           /\ \A y \in SimIndices : SimLE(SimScore(y), SimScore(x))

\* C13: most_similar with topn = N returns exactly N results and no key twice
\* whenever the store holds at least N distinct keys that are not excluded.
C13_ExactlyTopn ==
    (sim_last.method = "distance" /\ Cardinality(OtherKeys) >= sim_last.topn) =>
        /\ ~sim_last.raised
        /\ Cardinality(ReturnedKeys) = sim_last.topn
        /\ Len(sim_last.res) = sim_last.topn

(***************************************************************************)
(* Properties of the concatenated store.                                   *)
(***************************************************************************)

CatQueried(kind) == cat_last.method = "query" /\ cat_last.kind = kind
\* m.query(q, normalized=...) of store m alone, for the arguments of the last call
OwnResult(m) ==
    magnitude_query(m, cat_last.kind, cat_last.q,
                    IF cat_last.normalized = "None" THEN self_normalized
                    ELSE cat_last.normalized = "True")

\* C14: a single key queried on the concatenation of stores of dims d1 and
\* d2 gives a vector of length d1 + d2, the first d1 components being the
\* first store's own result and the last d2 the second store's, with arrays
\* and with lists.
C14_SingleKeyJoined ==
    CatQueried("key") =>
        /\ ~cat_last.raised
        /\ Len(cat_last.rv) = dims[1] + dims[2]
        /\ SubSeq(cat_last.rv, 1, dims[1]) = OwnResult(1)
        /\ SubSeq(cat_last.rv, dims[1] + 1, dims[1] + dims[2]) = OwnResult(2)

\* a key was queried on a concatenation of stores that return lists
C14_KeyOnLists == CatQueried("key") /\ ~cat_use_numpy /\ ~cat_last.raised

\* C15: for a flat list and for a nested list the concatenated store gives,
\* per key position, the vectors of the two stores joined along the feature
\* axis, with arrays and with lists; stores of differing use_numpy cannot be
\* concatenated.
C15_JoinedPerPosition ==
    /\ CatQueried("list") =>
           ~cat_last.raised /\ cat_last.rv = concatenate(OwnResult(1), OwnResult(2), 2)
    /\ CatQueried("nested") =>
           ~cat_last.raised /\ cat_last.rv = concatenate(OwnResult(1), OwnResult(2), 3)
    /\ cat_last.method = "init" =>
           (cat_last.raised <=> cat_store.use_numpy[1] # cat_store.use_numpy[2])

\* what pad_to_length = T, pad_left and truncate_left make of the vectors v
\* of a flat list: T rows, the first (last) T of v when v is longer, v with
\* zero rows after (before) it when v is shorter
CatExpected(v, T, pad_left, truncate_left) ==
    LET keys_length == Min(Len(v), T)
        kept == IF truncate_left = "True"
                THEN SubSeq(v, Len(v) - keys_length + 1, Len(v))
                ELSE SubSeq(v, 1, keys_length)
        padding == [r \in 1 .. (T - keys_length) |->
                       [j \in 1 .. (dims[1] + dims[2]) |-> 0]]
    IN  IF pad_left = "True" THEN padding \o kept ELSE kept \o padding

\* C16: pad_to_length = T, pad_left and truncate_left passed to the query of
\* a concatenated store shape the result as they shape a single store's: a
\* flat list gives T rows, padded or truncated on the requested side.
C16_OptionsShapeResult ==
    (CatQueried("list") /\ cat_last.pad_to_length # None) =>
        /\ ~cat_last.raised
        /\ cat_last.rv =
               CatExpected([r \in 1 .. Len(cat_last.q) |->
                               cat_vector(1, cat_last.q[r], self_normalized)
                                   \o cat_vector(2, cat_last.q[r], self_normalized)],
                           cat_last.pad_to_length, cat_last.pad_left,
                           cat_last.truncate_left)

(***************************************************************************)
(* Properties of the lookup of rows by position.                           *)
(***************************************************************************)

\* the indices of the last call that name no row
OutOfRange == {index_last.q[p] : p \in 1 .. Len(index_last.q)} \ Rows

\* C17: index(i) and index([...]) with an index that names no row (i < 0 or
\* i >= the number of rows) raise IndexError, and nothing is cached for that
\* index.
C17_IndexErrorRaised ==
    (index_last # NoCall /\ OutOfRange # {}) =>
        /\ index_last.raised = "IndexError"
        /\ \A x \in OutOfRange, return_vector \in BOOLEAN :
               <<x, return_vector>> \notin index_cache

(***************************************************************************)
(* Properties of the handles on the storage.                               *)
(***************************************************************************)

\* the positions of the calls of _db thread t has made
CallsOf(t) == 1 .. Len(db_calls[t])
\* no thread has called _db(force_new=True)
NoForceNew == \A t \in DbThreads : \A p \in CallsOf(t) : ~db_calls[t][p].force_new
\* the live threads that have called _db
LiveCallers == {t \in DbThreads : db_thread[t].state = "live" /\ db_calls[t] # <<>>}

\* C18: when _db is called without force_new only, all the calls of one worker
\* return the same cursor, which was opened on that worker's first call, and
\* two different live workers never get the same cursor or connection.
C18_OneCursorPerWorker ==
    NoForceNew =>
        /\ \A t \in DbThreads :
               db_calls[t] # <<>> =>
                   /\ db_calls[t][1].opened
                   /\ \A p \in CallsOf(t) : db_calls[t][p].rv = db_calls[t][1].rv
        /\ \A t, u \in LiveCallers :
               t # u =>
                   /\ db_calls[t][1].rv # db_calls[u][1].rv
                   /\ cursor_conn[db_calls[t][1].rv] # cursor_conn[db_calls[u][1].rv]

\* C19: on every worker and in every order of calls, no _db() call without
\* force_new returns the cursor that an earlier _db(force_new=True) call of
\* the same worker returned.
C19_ForceNewIndependent ==
    \A t \in DbThreads : \A a, b \in CallsOf(t) :
        (a < b /\ db_calls[t][a].force_new /\ ~db_calls[t][b].force_new) =>
            db_calls[t][b].rv # db_calls[t][a].rv

\* something close releases has been released
Released == conn_open # 1 .. conns_made \/ ~handles.fd \/ ~handles.mmap

BackgroundOf(s) == {w \in Workers : StoreOf[w] = s /\ Background[w]}

\* C21: after close() is called on a store every background thread started
\* by its constructor eventually exits (so that the wait of close() ends),
\* whether the thread is scanning, building or polling for a file that does
\* not exist yet.
C21_BackgroundExits ==
    \A s \in Closable :
        closed[s] ~> (\A w \in BackgroundOf(s) : ~is_alive(w))

\* the step is an I/O error in the build section of w
ErrorStep(w) == errors' = errors + 1 /\ pc'[w] # pc[w]
\* the call of w has ended
Ended(w) == pc[w] \in {"raised", "returned"}

\* C22: an error raised while the file is being constructed propagates to
\* the caller when close() has not been requested and is suppressed when it
\* has, and the worker holds neither lock once its call has ended.
C22_ErrorsPropagateUnlessClosed ==
    /\ [][\A w \in Workers :
              ErrorStep(w) =>
                  IF closed[StoreOf[w]]
                  THEN outcome'[w] # "raise"
                  ELSE outcome'[w] = "raise"]_vars
    /\ [](\A w \in Workers :
              Ended(w) =>
                  /\ ~HoldsThreadLock(w)
                  /\ (\A u \in Workers \ {w} : Ended(u)) => process_lock # ProcOfWorker(w))

\* C23: with lazy_loading = -1 and blocking, when the constructor returns the
\* vector of every stored key is in the lookup cache and no later query for
\* a stored key reaches the storage, whatever eager is and whether the mmap
\* file exists, is built by another worker, or does not exist.
C23_PreloadedOnReturn ==
    (pre.blocking /\ pre_pc["constructor"].pc = "done") =>
        /\ pre.cache = Rows
        /\ pre.storage = {}

\* C24: any two stores of one process whose path_to_mmap is equal end up
\* using the same in-process lock object, however their calls of
\* _setup_for_mmap interleave.
C24_OneLockPerPath ==
    \A s, t \in SetupStores :
        (setup[s].pc = "done" /\ setup[t].pc = "done") =>
            setup[s].MMAP_THREAD_LOCK = setup[t].MMAP_THREAD_LOCK

\* C25: a worker that is polling, its attempt on the locks over or not yet
\* begun, holds neither lock: a lock is held only by a worker that is
\* building (or is leaving the build section through the finally block).
C25_PollersHoldNoLock ==
    \A w \in Workers :
        pc[w] \in PollPcs \ {"plock"} =>
            /\ ~HoldsThreadLock(w)
            /\ (process_lock = ProcOfWorker(w)) =>
                   \E u \in Workers :
                       /\ ProcOfWorker(u) = ProcOfWorker(w)
                       /\ pc[u] \in BuildPcs \cup {"release_tlock", "release_plock"}

\* the matrix is published in _all_vectors of store s
Published(s) == all_vectors[s] \notin {None, Deleted}

\* C27: on an open store the matrix, once published in _all_vectors, is never
\* reset to None, and every call that returns while the store is not closed
\* returns the matrix.
C27_PublishedStays ==
    /\ [][\A s \in Stores :
              (Published(s) /\ ~closed[s] /\ ~closed'[s]) => Published(s)']_vars
    /\ [](\A w \in Workers :
              (pc[w] = "returned" /\ ~closed[StoreOf[w]]) => rv[w] # None)

(***************************************************************************)
(* The similarity search: batches                                          *)
(***************************************************************************)

\* the rows of the batches of the store, in the order the generator gives them
RECURSIVE BatchRows(_, _)
BatchRows(batches, b) ==
    IF b > Len(batches) THEN <<>>
    ELSE [p \in 1 .. (batches[b].batch_end - batches[b].batch_start) |->
             batches[b].batch_start + p - 1] \o BatchRows(batches, b + 1)

\* C26: the result of the similarity search does not depend on batch_size:
\* for every batch_size >= 1 the search completes without error and returns
\* a result that the search with a single batch of all rows returns, and the
\* batches cover the rows 0 .. length - 1 in ascending order, each row once.
C26_BatchSizeIndependent ==
    sim_last # NoCall =>
        /\ ~sim_last.raised
        /\ [raised |-> sim_last.raised, res |-> sim_last.res]
               \in similarity_in_batches(sim_last.positive, sim_last.negative,
                                         sim_last.topn, sim_last.method, sim_length)
        /\ BatchRows(get_vectors_mmap_batch_generator(sim_store.batch_size), 1)
               = [p \in 1 .. sim_length |-> p - 1]

(***************************************************************************)
(* The query facade: options, lists and single keys                        *)
(***************************************************************************)

\* the value an option has when it is passed, the default of the store when
\* it is not
Explicit(option, default) == IF option = "None" THEN default ELSE option = "True"

\* C30: pad_to_length, pad_left and truncate_left passed to query decide the
\* result whatever their value: pad_left = False and truncate_left = False
\* give right padding and right truncation on a store configured with True,
\* and the default of the store is used only for an option that is not passed
C30_ExplicitOptionWins ==
    last.kind = "padded" =>
        last.rv = ExpectedRows(last.vectors, last.pad_to_length,
                               Explicit(last.options[1], self_pad_left),
                               Explicit(last.options[2], self_truncate_left))

\* C29: index called with a list of indices that all name a row, an index
\* more than once or not, whatever the cache of _key_for_index holds,
\* succeeds and gives at every position what index gives for the index at
\* that position
C29_IndexListElementwise ==
    (index_last # NoCall /\ index_last.kind = "list" /\ OutOfRange = {}) =>
        /\ index_last.raised = "none"
        /\ Len(index_last.rv) = Len(index_last.q)
        /\ \A j \in 1 .. Len(index_last.q) :
               <<index_last.rv[j]>> =
                   _key_for_index_cached(index_cache, index_last.q[j],
                                         index_last.return_vector).rv

\* the argument normalized that gives the flag of the last call
LastNormalized == IF last.normalized THEN "True" ELSE "False"

\* C28: the query of a flat list, without padding or truncation, returns at
\* every position j the vector the query of the key at j returns, for keys in
\* storage or not, repeated or not, on a case-sensitive and on a
\* case-insensitive store
C28_ListRowsAreSingleQueries ==
    last.kind = "list" =>
        \A j \in 1 .. Len(last.q) :
            /\ ~last.raised
            /\ Len(last.rv) = Len(last.q)
            /\ last.rv[j] = query_key(Store, last.q[j], LastNormalized).rv

====
